---- MODULE Spec2Model ----
(***************************************************************************)
(* Canonical LR(1) parser generator and driver: grammar parser, FIRST      *)
(* engine, item closure / goto, canonical collection, ACTION/GOTO table    *)
(* builder and the table-driven shift/reduce driver, as one state machine  *)
(* driven by the lab's Generate and Parse handlers.                        *)
(*                                                                         *)
(* Arrays are sequences.  A JavaScript Set or Map that the code iterates   *)
(* is a sequence in insertion order; a Map that is only looked up is a     *)
(* function whose DOMAIN is its key set.  State indices and production     *)
(* ids are 0-based as in the code: states[i + 1] is state i.               *)
(***************************************************************************)
EXTENDS Integers, Sequences, FiniteSets, TLC

VARIABLES grammarInput, inputString, grammar, parsingTable, consoleWarn, error,
          pc, inputTokens, stack, nodeStack, ip, stepCount, steps, parseResult,
          build, allSteps, visibleSteps, currentStep, isPlaying, animationRef

vars == <<grammarInput, inputString, grammar, parsingTable, consoleWarn, error,
          pc, inputTokens, stack, nodeStack, ip, stepCount, steps, parseResult,
          build, allSteps, visibleSteps, currentStep, isPlaying, animationRef>>

\* The playback of the trace in the lab.  animationRef is the pending
\* time-out of the playback effect: the currentStep its callback closes
\* over, or NoTimer.
playVars == <<allSteps, visibleSteps, currentStep, isPlaying, animationRef>>

\* build holds the locals of a run of buildCanonicalCollection that is
\* followed step by step; the handlers of the lab run it in one step, and
\* build then holds the transitions of the collection it returned to
\* buildParsingTable.
labVars == <<grammarInput, grammar, parsingTable, consoleWarn, error, build>>

driverVars == <<inputTokens, stack, nodeStack, ip, stepCount, steps, parseResult>>

----------------------------------------------------------------------------
(* Bounds of the model.                                                    *)

\* Number of rule lines of a grammar text.
MaxLines == 2

\* Number of whitespace-separated tokens of an input string.
MaxInputLen == 3

\* Iterations of the driver loop that the model follows.
MaxSteps == 12

----------------------------------------------------------------------------
(* Small helpers for the JavaScript containers.                            *)

Range(s) == {s[k] : k \in DOMAIN s}

AddUnique(s, x) == IF x \in Range(s) THEN s ELSE Append(s, x)

EmptyMap == [k \in {} |-> 0]

MapHas(m, k) == k \in DOMAIN m

MapSet(m, k, v) == [x \in (DOMAIN m) \cup {k} |-> IF x = k THEN v ELSE m[x]]

Max(a, b) == IF a > b THEN a ELSE b

----------------------------------------------------------------------------
(* Grammar model.                                                          *)

TERMINAL == "TERMINAL"

NON_TERMINAL == "NON_TERMINAL"

END == "END"

\* The name of the empty string, the Greek letter epsilon of the code.
EPSILON == "eps"

Symbol(name, type) == [name |-> name, type |-> type]

\* `id` stands for the identity of the Production object (its position in
\* grammar.productions); the code compares productions by reference.
Production(id, lhs, rhs) == [id |-> id, lhs |-> lhs, rhs |-> rhs]

SymbolNames(rhs) == [k \in DOMAIN rhs |-> rhs[k].name]

\* Production.toString: "lhs -> names joined by blanks", "lhs -> eps" for an
\* empty rhs; the pair <<lhs, names>> stands for that string.
productionToString(p) == <<p.lhs.name, SymbolNames(p.rhs)>>

NullGrammar == [productions |-> <<>>, startSymbol |-> Symbol("", NON_TERMINAL),
                terminals |-> {}, nonTerminals |-> {}]

\* The names of the rhs symbols of the productions that carry the tag.
rhsNamesOfType(productions, type) ==
  UNION {{productions[p].rhs[k].name :
            k \in {k \in DOMAIN productions[p].rhs : productions[p].rhs[k].type = type}} :
         p \in DOMAIN productions}

Grammar(productions, startSymbol) ==
  [productions |-> productions,
   startSymbol |-> startSymbol,
   terminals |-> rhsNamesOfType(productions, TERMINAL),
   nonTerminals |-> {productions[p].lhs.name : p \in DOMAIN productions} \cup
                    rhsNamesOfType(productions, NON_TERMINAL)]

getProductionsFor(g, nonTerminal) ==
  SelectSeq(g.productions, LAMBDA p : p.lhs.name = nonTerminal.name)

----------------------------------------------------------------------------
(* Grammar text.  A text is the sequence of its non-blank lines; a line is *)
(* what line.split("->") and the later split("|") / split(/\s+/) see of    *)
(* it: the trimmed text before the first arrow, whether there is an arrow, *)
(* and the alternatives after it, each a sequence of names.  alts = <<>>   *)
(* is a rule with nothing at all after the arrow.                          *)

Rule(lhs, alts) == [lhs |-> lhs, arrow |-> TRUE, alts |-> alts]

NoArrow(text) == [lhs |-> text, arrow |-> FALSE, alts |-> <<>>]

RulePool ==
  { Rule("S", << <<"A", "A">> >>),
    Rule("A", << <<"a", "A">>, <<"b">> >>),
    Rule("S", << <<"S">>, <<"a">> >>),
    Rule("E", << <<"E", "+", "E">>, <<"i">> >>),
    Rule("S", << <<"a", "S'">> >>),
    Rule("S'", << <<"b">> >>),
    Rule("S", << <<"a">>, <<"A", "a">> >>),
    Rule("A", << <<"eps">> >>),
    Rule("S", << <<"A", "b">> >>),
    Rule("A", << <<"A", "a">>, <<>> >>),
    Rule("S", << <<"$">> >>),
    Rule("$", << <<"a">> >>),
    Rule("S", << <<"S">>, <<"eps">> >>),
    Rule("S", << <<"S", "A", "b">>, <<"b">> >>),
    NoArrow("A") }

RECURSIVE DistinctSeqs(_, _)
DistinctSeqs(S, n) ==
  IF n = 0 THEN {<<>>}
  ELSE LET shorter == DistinctSeqs(S, n - 1)
       IN shorter \cup {Append(s, x) : <<s, x>> \in
                          {<<s, x>> \in shorter \X S :
                              Len(s) = n - 1 /\ x \notin Range(s)}}

GrammarTexts == DistinctSeqs(RulePool, MaxLines) \ {<<>>}

----------------------------------------------------------------------------
(* parseGrammar.                                                           *)

EpsilonTokens == {"eps", "''", "\"\"", ""}

\* First pass: the text before the arrow of every line is a non-terminal.
lhsNames(lines) == {lines[k].lhs : k \in DOMAIN lines}

\* if (!lhsStr || !rhsStr) return;
lineSkipped(line) == line.lhs = "" \/ ~line.arrow \/ line.alts = <<>>

ruleRhs(alt, nonTerminals) ==
  LET kept == SelectSeq(alt, LAMBDA s : s \notin EpsilonTokens)
  IN [k \in DOMAIN kept |->
        Symbol(kept[k], IF kept[k] \in nonTerminals THEN NON_TERMINAL ELSE TERMINAL)]

RECURSIVE lineProductions(_, _, _, _)
lineProductions(lines, k, nonTerminals, productions) ==
  IF k > Len(lines) THEN productions
  ELSE IF lineSkipped(lines[k])
       THEN lineProductions(lines, k + 1, nonTerminals, productions)
       ELSE LET line == lines[k]
                n == Len(productions)
                added == [j \in 1..Len(line.alts) |->
                            Production(n + j, Symbol(line.lhs, NON_TERMINAL),
                                       ruleRhs(line.alts[j], nonTerminals))]
            IN lineProductions(lines, k + 1, nonTerminals, productions \o added)

augmentedName(startName) == startName \o "'"

\* augment with the production of the augmented start put after the parsed ones.
augmentAppended(startName, productions) ==
  Grammar(productions \o
            <<Production(0, Symbol(augmentedName(startName), NON_TERMINAL),
                         <<Symbol(startName, NON_TERMINAL)>>)>>,
          Symbol(augmentedName(startName), NON_TERMINAL))

\* The augmented grammar for the start name and the parsed productions.
augment(startName, productions) ==
  Grammar(<<Production(0, Symbol(augmentedName(startName), NON_TERMINAL),
                       <<Symbol(startName, NON_TERMINAL)>>)>> \o productions,
          Symbol(augmentedName(startName), NON_TERMINAL))

\* The result of parseGrammar: ok = FALSE stands for the thrown Error.
\* originalStartSymbol is set by line 0 alone, and only when it is not skipped.
parseGrammar(lines) ==
  IF Len(lines) = 0 \/ lineSkipped(lines[1])
  THEN [ok |-> FALSE, message |-> "Empty grammar", grammar |-> NullGrammar]
  ELSE [ok |-> TRUE, message |-> "",
        grammar |-> augment(lines[1].lhs,
                            lineProductions(lines, 1, lhsNames(lines), <<>>))]

----------------------------------------------------------------------------
(* FIRST engine.  The result Set is a sequence in insertion order, because *)
(* closure iterates over it when it appends new items.                     *)

\* symFirst.forEach(f => { if (f === eps) hasEpsilon = true; else result.add(f) })
RECURSIVE addAllButEpsilon(_, _, _)
addAllButEpsilon(result, fs, k) ==
  IF k > Len(fs) THEN result
  ELSE addAllButEpsilon(IF fs[k] = EPSILON THEN result ELSE AddUnique(result, fs[k]),
                        fs, k + 1)

\* if (allDeriveEpsilon) result.add(eps)
withEpsilonIfAll(r) ==
  IF r.allDeriveEpsilon THEN AddUnique(r.result, EPSILON) ELSE r.result

RECURSIVE first(_, _, _)
RECURSIVE firstOfRhs(_, _, _, _, _)
RECURSIVE firstOfProductions(_, _, _, _, _)

\* One round of the loop over prod.rhs, rhsFirst being first(rhs[j]).
firstOfRhsRound(rhs, j, g, visited, result, rhsFirst) ==
  IF EPSILON \in Range(rhsFirst)
  THEN firstOfRhs(rhs, j + 1, g, visited, addAllButEpsilon(result, rhsFirst, 1))
  ELSE [result |-> addAllButEpsilon(result, rhsFirst, 1), allDeriveEpsilon |-> FALSE]

\* The loop over prod.rhs with its break.
firstOfRhs(rhs, j, g, visited, result) ==
  IF j > Len(rhs) THEN [result |-> result, allDeriveEpsilon |-> TRUE]
  ELSE firstOfRhsRound(rhs, j, g, visited, result, first(rhs[j], g, visited))

\* The loop over the productions of the symbol.
firstOfProductions(productions, k, g, visited, result) ==
  IF k > Len(productions) THEN result
  ELSE firstOfProductions(productions, k + 1, g, visited,
         IF Len(productions[k].rhs) = 0
         THEN AddUnique(result, EPSILON)
         ELSE withEpsilonIfAll(firstOfRhs(productions[k].rhs, 1, g, visited, result)))

first(symbol, g, visited) ==
  IF symbol.type = TERMINAL \/ symbol.type = END THEN <<symbol.name>>
  ELSE IF symbol.name \in visited THEN <<>>
  ELSE firstOfProductions(getProductionsFor(g, symbol), 1, g,
                          visited \cup {symbol.name}, <<>>)

RECURSIVE firstOfSequenceLoop(_, _, _, _)

firstOfSequenceRound(sequence, j, g, result, symFirst) ==
  IF EPSILON \in Range(symFirst)
  THEN firstOfSequenceLoop(sequence, j + 1, g, addAllButEpsilon(result, symFirst, 1))
  ELSE [result |-> addAllButEpsilon(result, symFirst, 1), allDeriveEpsilon |-> FALSE]

firstOfSequenceLoop(sequence, j, g, result) ==
  IF j > Len(sequence) THEN [result |-> result, allDeriveEpsilon |-> TRUE]
  ELSE firstOfSequenceRound(sequence, j, g, result, first(sequence[j], g, {}))

firstOfSequence(sequence, g) ==
  IF Len(sequence) = 0 THEN <<EPSILON>>
  ELSE withEpsilonIfAll(firstOfSequenceLoop(sequence, 1, g, <<>>))

----------------------------------------------------------------------------
(* LR(1) items.                                                            *)

LR1Item(production, dotPosition, lookahead) ==
  [production |-> production, dotPosition |-> dotPosition, lookahead |-> lookahead]

NoSymbol == [name |-> "", type |-> "null"]

nextSymbol(item) ==
  IF item.dotPosition < Len(item.production.rhs)
  THEN item.production.rhs[item.dotPosition + 1]
  ELSE NoSymbol

\* rhsNames.splice(dotPosition, 0, '.')
spliceDot(names, dotPosition) ==
  SubSeq(names, 1, dotPosition) \o <<".">> \o SubSeq(names, dotPosition + 1, Len(names))

\* LR1Item.toString: "lhs -> names with the dot , lookahead"; the triple
\* stands for that string (an empty rhs prints as the lone dot).
itemToString(item) ==
  <<item.production.lhs.name,
    spliceDot(SymbolNames(item.production.rhs), item.dotPosition),
    item.lookahead.name>>

itemStrings(items) == {itemToString(items[k]) : k \in DOMAIN items}

lookaheadSymbol(term) == Symbol(term, IF term = "$" THEN END ELSE TERMINAL)

\* The worklist state of closure: the result so far, the keys seen, the queue.
Worklist(closureSet, processed, queue) ==
  [closureSet |-> closureSet, processed |-> processed, queue |-> queue]

\* closurePush without queue.push: the new item is never expanded.
closurePushUnqueued(w, newItem) ==
  IF itemToString(newItem) \in w.processed THEN w
  ELSE Worklist(Append(w.closureSet, newItem),
                w.processed \cup {itemToString(newItem)},
                w.queue)

\* closurePush with queue.push outside the test of the key: an item that is
\* already there is queued again.
closurePushRequeued(w, newItem) ==
  IF itemToString(newItem) \in w.processed
  THEN Worklist(w.closureSet, w.processed, Append(w.queue, newItem))
  ELSE Worklist(Append(w.closureSet, newItem),
                w.processed \cup {itemToString(newItem)},
                Append(w.queue, newItem))

\* if (!processed.has(key)) { processed.add(key); closureSet.push; queue.push }
closurePush(w, newItem) ==
  IF itemToString(newItem) \in w.processed THEN w
  ELSE Worklist(Append(w.closureSet, newItem),
                w.processed \cup {itemToString(newItem)},
                Append(w.queue, newItem))

\* closureAdd giving the items of an empty production the empty string as
\* their lookahead.
RECURSIVE closureAddEpsilonLookahead(_, _, _, _, _)
closureAddEpsilonLookahead(prodB, firstSet, p, t, w) ==
  IF p > Len(prodB) THEN w
  ELSE IF t > Len(firstSet) THEN closureAddEpsilonLookahead(prodB, firstSet, p + 1, 1, w)
  ELSE closureAddEpsilonLookahead(prodB, firstSet, p, t + 1,
         IF firstSet[t] = EPSILON THEN w
         ELSE closurePush(w, LR1Item(prodB[p], 0,
                IF Len(prodB[p].rhs) = 0 THEN Symbol(EPSILON, TERMINAL)
                ELSE lookaheadSymbol(firstSet[t]))))

\* prodB.forEach(prod => firstSet.forEach(term => ...)) of the worklist loop.
RECURSIVE closureAdd(_, _, _, _, _)
closureAdd(prodB, firstSet, p, t, w) ==
  IF p > Len(prodB) THEN w
  ELSE IF t > Len(firstSet) THEN closureAdd(prodB, firstSet, p + 1, 1, w)
  ELSE closureAdd(prodB, firstSet, p, t + 1,
         IF firstSet[t] = EPSILON THEN w
         ELSE closurePush(w, LR1Item(prodB[p], 0, lookaheadSymbol(firstSet[t]))))

\* closureExpand with the lookaheads FIRST(a) instead of FIRST(beta a): the
\* symbols after the non-terminal are forgotten.
closureExpandIgnoringBeta(item, w, g) ==
  IF nextSymbol(item) # NoSymbol /\ nextSymbol(item).type = NON_TERMINAL
  THEN closureAdd(getProductionsFor(g, nextSymbol(item)),
                  firstOfSequence(<<item.lookahead>>, g),
                  1, 1, w)
  ELSE w

\* The items that the item taken from the queue adds; w is the worklist
\* after queue.shift().
closureExpand(item, w, g) ==
  IF nextSymbol(item) # NoSymbol /\ nextSymbol(item).type = NON_TERMINAL
  THEN closureAdd(getProductionsFor(g, nextSymbol(item)),
                  firstOfSequence(
                    Append(SubSeq(item.production.rhs, item.dotPosition + 2,
                                  Len(item.production.rhs)),
                           item.lookahead), g),
                  1, 1, w)
  ELSE w

\* while (queue.length > 0)
RECURSIVE closureLoop(_, _)
closureLoop(w, g) ==
  IF Len(w.queue) = 0 THEN w.closureSet
  ELSE closureLoop(closureExpand(Head(w.queue),
                                 Worklist(w.closureSet, w.processed, Tail(w.queue)), g),
                   g)

\* The value closure returns is built by its second, queue-based half.
closure(items, g) == closureLoop(Worklist(items, itemStrings(items), items), g)

\* movedOver stopping at the first item that has the name after its dot.
movedOverFirstOnly(items, symbolName) ==
  LET having == SelectSeq(items, LAMBDA item :
                    nextSymbol(item) # NoSymbol /\ nextSymbol(item).name = symbolName)
  IN IF Len(having) = 0 THEN <<>>
     ELSE <<LR1Item(having[1].production, having[1].dotPosition + 1, having[1].lookahead)>>

\* The items of the list with the name after the dot, the dot moved over it.
movedOver(items, symbolName) ==
  LET having == SelectSeq(items, LAMBDA item :
                    nextSymbol(item) # NoSymbol /\ nextSymbol(item).name = symbolName)
  IN [k \in DOMAIN having |->
        LR1Item(having[k].production, having[k].dotPosition + 1, having[k].lookahead)]

goto(items, symbolName, g) == closure(movedOver(items, symbolName), g)

----------------------------------------------------------------------------
(* Canonical collection.                                                   *)

\* The Set `symbols` of a state, in insertion order.
RECURSIVE symbolsAfterDot(_, _, _)
symbolsAfterDot(state, k, symbols) ==
  IF k > Len(state) THEN symbols
  ELSE symbolsAfterDot(state, k + 1,
         IF nextSymbol(state[k]) # NoSymbol
         THEN AddUnique(symbols, nextSymbol(state[k]).name) ELSE symbols)

isSameState(s1, s2) ==
  /\ Len(s1) = Len(s2)
  /\ \A k \in DOMAIN s2 : itemToString(s2[k]) \in itemStrings(s1)

\* existingStateIndex with the search stopping one state short of the last.
existingStateIndexButLast(states, nextStateItems) ==
  LET same == {j \in 0..(Len(states) - 2) : isSameState(states[j + 1], nextStateItems)}
  IN IF same = {} THEN -1 ELSE CHOOSE j \in same : \A h \in same : j <= h

\* The index of the first state equal to the items, or -1.
existingStateIndex(states, nextStateItems) ==
  LET same == {j \in 0..(Len(states) - 1) : isSameState(states[j + 1], nextStateItems)}
  IN IF same = {} THEN -1 ELSE CHOOSE j \in same : \A h \in same : j <= h

Collection(states, transitions, changed) ==
  [states |-> states, transitions |-> transitions, changed |-> changed]

\* transitions.get(i).set(symName, index), the row created when missing.
setTransition(transitions, i, symName, index) ==
  MapSet(transitions, i,
         MapSet(IF MapHas(transitions, i) THEN transitions[i] ELSE EmptyMap,
                symName, index))

\* collectionLink recording a transition only when it pushes a new state.
collectionLinkNewOnly(c, i, symName, nextStateItems, found) ==
  IF Len(nextStateItems) = 0 \/ found # -1 THEN c
  ELSE Collection(Append(c.states, nextStateItems),
                  setTransition(c.transitions, i, symName, Len(c.states)), TRUE)

\* The body of symbols.forEach once goto and the search have run: found is
\* the index of an equal state or -1.
collectionLink(c, i, symName, nextStateItems, found) ==
  IF Len(nextStateItems) = 0 THEN c
  ELSE IF found = -1
  THEN Collection(Append(c.states, nextStateItems),
                  setTransition(c.transitions, i, symName, Len(c.states)), TRUE)
  ELSE Collection(c.states, setTransition(c.transitions, i, symName, found), c.changed)

collectionGoto(c, i, symName, nextStateItems) ==
  collectionLink(c, i, symName, nextStateItems,
                 existingStateIndex(c.states, nextStateItems))

\* symbols.forEach(symName => ...) for state i.
RECURSIVE collectionSymbols(_, _, _, _, _)
collectionSymbols(c, i, symbols, k, g) ==
  IF k > Len(symbols) THEN c
  ELSE collectionSymbols(
         collectionGoto(c, i, symbols[k], goto(c.states[i + 1], symbols[k], g)),
         i, symbols, k + 1, g)

\* for (let i = 0; i < states.length; i++), states growing as it runs.
RECURSIVE collectionPass(_, _, _)
collectionPass(c, i, g) ==
  IF i >= Len(c.states) THEN c
  ELSE collectionPass(
         collectionSymbols(c, i, symbolsAfterDot(c.states[i + 1], 1, <<>>), 1, g),
         i + 1, g)

\* while (changed) { changed = false; ... }
RECURSIVE collectionWhile(_, _)
collectionWhile(c, g) ==
  IF c.changed
  THEN collectionWhile(collectionPass(Collection(c.states, c.transitions, FALSE), 0, g), g)
  ELSE [states |-> c.states, transitions |-> c.transitions]

buildCanonicalCollection(g) ==
  collectionWhile(
    Collection(<<closure(<<LR1Item(g.productions[1], 0, Symbol("$", END))>>, g)>>,
               EmptyMap, TRUE),
    g)

\* collection.transitions.get(i)?.get(name); -1 stands for undefined.
transitionOf(collection, i, name) ==
  IF MapHas(collection.transitions, i) /\ MapHas(collection.transitions[i], name)
  THEN collection.transitions[i][name] ELSE -1

----------------------------------------------------------------------------
(* ACTION / GOTO table.                                                    *)

SHIFT == "SHIFT"

REDUCE == "REDUCE"

ACCEPT == "ACCEPT"

\* An Action object; the fields a kind does not set hold the defaults
\* -1, <<>>, "" and -1.
ShiftAction(nextState) ==
  [type |-> SHIFT, value |-> nextState, productionStr |-> <<>>,
   productionLhs |-> "", productionRhsLen |-> -1]

AcceptAction ==
  [type |-> ACCEPT, value |-> -1, productionStr |-> <<>>,
   productionLhs |-> "", productionRhsLen |-> -1]

ReduceAction(production) ==
  [type |-> REDUCE, value |-> -1, productionStr |-> productionToString(production),
   productionLhs |-> production.lhs.name, productionRhsLen |-> Len(production.rhs)]

\* The ACTION row of a state while it is built: the Map, the history of the
\* writes to it in order, and the console.warn calls.
EmptyRow == [action |-> EmptyMap, writes |-> <<>>, warns |-> <<>>]

\* action.get(i).set(key, act)
writeCell(row, key, act) ==
  [action |-> MapSet(row.action, key, act),
   writes |-> Append(row.writes, [key |-> key, action |-> act]),
   warns |-> row.warns]

\* Rule 1 with the state itself as the target of the shift.
itemShiftStaying(row, item, i, collection) ==
  IF /\ nextSymbol(item) # NoSymbol
     /\ nextSymbol(item).type = TERMINAL
     /\ transitionOf(collection, i, nextSymbol(item).name) # -1
  THEN writeCell(row, nextSymbol(item).name, ShiftAction(i))
  ELSE row

\* Rule 1: the shift of the item, if any.
itemShift(row, item, i, collection) ==
  IF /\ nextSymbol(item) # NoSymbol
     /\ nextSymbol(item).type = TERMINAL
     /\ transitionOf(collection, i, nextSymbol(item).name) # -1
  THEN writeCell(row, nextSymbol(item).name,
                 ShiftAction(transitionOf(collection, i, nextSymbol(item).name)))
  ELSE row

\* if (existing) console.warn(...)
warnExisting(row, i, key) ==
  IF MapHas(row.action, key)
  THEN [row EXCEPT !.warns = Append(@, [state |-> i, symbol |-> key,
                                        existing |-> row.action[key].type])]
  ELSE row

\* Rule 2: accept or reduce for a complete item.
itemReduce(row, item, i, g) ==
  IF nextSymbol(item) # NoSymbol THEN row
  ELSE IF item.production.lhs.name = g.startSymbol.name /\ item.lookahead.name = "$"
  THEN writeCell(row, "$", AcceptAction)
  ELSE writeCell(warnExisting(row, i, item.lookahead.name), item.lookahead.name,
                 ReduceAction(item.production))

\* state.forEach(item => ...) for state i.
RECURSIVE tableItems(_, _, _, _, _, _)
tableItems(row, state, k, i, collection, g) ==
  IF k > Len(state) THEN row
  ELSE tableItems(itemReduce(itemShift(row, state[k], i, collection), state[k], i, g),
                  state, k + 1, i, collection, g)

tableRow(i, collection, g) ==
  tableItems(EmptyRow, collection.states[i + 1], 1, i, collection, g)

\* Rule 3 without its test of the name: every transition of state i.
gotoRowOfEverySymbol(i, collection, g) ==
  IF MapHas(collection.transitions, i) THEN collection.transitions[i] ELSE EmptyMap

\* Rule 3: the transitions of state i on names that are no terminals.
gotoRow(i, collection, g) ==
  LET row == IF MapHas(collection.transitions, i) THEN collection.transitions[i]
             ELSE EmptyMap
  IN [sym \in {sym \in DOMAIN row : sym \notin g.terminals /\ sym # "$"} |-> row[sym]]

RECURSIVE concatWarns(_, _)
concatWarns(rows, i) ==
  IF i >= Len(rows) THEN <<>> ELSE rows[i + 1].warns \o concatWarns(rows, i + 1)

tableOfRows(rows, collection, g) ==
  [table |-> [action |-> [i \in 0..(Len(rows) - 1) |-> rows[i + 1].action],
              goto |-> [i \in 0..(Len(rows) - 1) |-> gotoRow(i, collection, g)],
              states |-> collection.states],
   warns |-> concatWarns(rows, 0),
   writes |-> [i \in 0..(Len(rows) - 1) |-> rows[i + 1].writes]]

tableOfCollection(collection, g) ==
  tableOfRows([k \in 1..Len(collection.states) |-> tableRow(k - 1, collection, g)],
              collection, g)

\* The table with what building it printed and the history of its writes.
tableBuild(g) == tableOfCollection(buildCanonicalCollection(g), g)

buildParsingTable(g) == tableBuild(g).table

NullTable == [action |-> EmptyMap, goto |-> EmptyMap, states |-> <<>>]

\* No run of buildCanonicalCollection is followed.
NoBuild == [pc |-> "idle"]

\* No time-out is pending.
NoTimer == -1

\* useState([]), useState([]), useState(0), useState(false), useRef(null)
noPlayback ==
  /\ allSteps = <<>>
  /\ visibleSteps = <<>>
  /\ currentStep = 0
  /\ isPlaying = FALSE
  /\ animationRef = NoTimer

\* The playback effect on a committed state: past the end of a trace it
\* sets isPlaying to false.
stillPlaying(playing, step, all) ==
  IF step >= Len(all) /\ Len(all) > 0 THEN FALSE ELSE playing

\* The playback effect on a committed state: the time-out of before is
\* cleared, and one is set while playing before the end of the trace.
timerFor(playing, step, all) ==
  IF stillPlaying(playing, step, all) /\ step < Len(all) THEN step ELSE NoTimer

\* The playback state a handler sets is committed and the effect has run.
commit(playing, step, visible, all) ==
  /\ isPlaying' = stillPlaying(playing, step, all)
  /\ currentStep' = step
  /\ visibleSteps' = visible
  /\ allSteps' = all
  /\ animationRef' = timerFor(playing, step, all)

----------------------------------------------------------------------------
(* The lab: Generate.                                                      *)

Init ==
  /\ grammarInput \in GrammarTexts
  /\ inputString = <<>>
  /\ grammar = NullGrammar
  /\ parsingTable = NullTable
  /\ consoleWarn = <<>>
  /\ error = ""
  /\ pc = "edit"
  /\ inputTokens = <<>>
  /\ stack = <<>>
  /\ nodeStack = <<>>
  /\ ip = 0
  /\ stepCount = 0
  /\ steps = <<>>
  /\ parseResult = <<>>
  /\ build = NoBuild
  /\ noPlayback

\* try { ... setGrammar(g); setParsingTable(table) }
publish(g, built) ==
  /\ grammar' = g
  /\ parsingTable' = built.table
  /\ consoleWarn' = built.warns
  /\ error' = ""
  /\ pc' = "ready"

\* The catch block without setGrammar(null) and setParsingTable(null).
unpublishKeepingTable(message) ==
  /\ UNCHANGED <<grammar, parsingTable, consoleWarn>>
  /\ error' = message
  /\ pc' = "failed"

\* catch (err) { setError(err.message); setGrammar(null); setParsingTable(null) }
unpublish(message) ==
  /\ grammar' = NullGrammar
  /\ parsingTable' = NullTable
  /\ consoleWarn' = <<>>
  /\ error' = message
  /\ pc' = "failed"

generated(parsed) ==
  IF parsed.ok THEN publish(parsed.grammar, tableBuild(parsed.grammar))
  ELSE unpublish(parsed.message)

\* const collection = buildCanonicalCollection(grammar), for a grammar that
\* was parsed.
collectionBuilt(parsed) ==
  IF parsed.ok
  THEN [pc |-> "built",
        transitions |-> buildCanonicalCollection(parsed.grammar).transitions]
  ELSE NoBuild

\* The body of handleGenerate.
generate ==
  /\ generated(parseGrammar(grammarInput))
  /\ build' = collectionBuilt(parseGrammar(grammarInput))
  /\ commit(FALSE, 0, <<>>, <<>>)
  /\ UNCHANGED <<grammarInput, inputString>>
  /\ UNCHANGED driverVars

handleGenerate == pc = "edit" /\ generate

\* The texts one edit of the grammar box makes of a text: its last line
\* deleted.  The texts that typing lines makes are the initial states.
GrammarEdits(text) ==
  IF Len(text) > 0 THEN {SubSeq(text, 1, Len(text) - 1)} ELSE {}

\* The grammar box is edited while the input box is empty; what Generate
\* has published stays until Generate is pressed again (pc = "edit").
setGrammarInput ==
  /\ pc \in {"ready", "failed"} /\ inputString = <<>>
  /\ \E text \in GrammarEdits(grammarInput) : grammarInput' = text
  /\ pc' = "edit"
  /\ UNCHANGED <<inputString, grammar, parsingTable, consoleWarn, error, build>>
  /\ UNCHANGED driverVars
  /\ UNCHANGED playVars

SAMPLES ==
  [simple |->
     [grammar |-> <<Rule("S", << <<"C", "C">> >>),
                    Rule("C", << <<"c", "C">>, <<"d">> >>)>>,
      input |-> <<"c", "c", "d", "d">>],
   assignment |->
     [grammar |-> <<Rule("S", << <<"L", "=", "R">>, <<"R">> >>),
                    Rule("L", << <<"*", "R">>, <<"i">> >>),
                    Rule("R", << <<"L">> >>)>>,
      input |-> <<"*", "i", "=", "i">>],
   expression |->
     [grammar |-> <<Rule("E", << <<"E", "+", "T">>, <<"T">> >>),
                    Rule("T", << <<"T", "*", "F">>, <<"F">> >>),
                    Rule("F", << <<"(", "E", ")">>, <<"i">> >>)>>,
      input |-> <<"i", "+", "i", "*", "i">>]]

\* The samples that the sessions of the model load.
LoadedSamples == {"simple", "assignment"}

\* The body of loadSample: the two boxes are filled and the two step
\* lists emptied; currentStep and isPlaying are not set.
sampleLoaded(key) ==
  /\ grammarInput' = SAMPLES[key].grammar
  /\ inputString' = SAMPLES[key].input
  /\ commit(isPlaying, currentStep, <<>>, <<>>)
  /\ pc' = "edit"
  /\ UNCHANGED <<grammar, parsingTable, consoleWarn, error, build>>
  /\ UNCHANGED driverVars

loadSample ==
  /\ pc \in {"edit", "failed"} \/ (pc = "ready" /\ inputString = <<>>)
  /\ \E key \in LoadedSamples : sampleLoaded(key)

----------------------------------------------------------------------------
(* The driver, parseString.  One action is one iteration of its loop.      *)

\* input.trim().split(/\s+/): the pieces of the text, the single empty
\* piece for a blank text.
splitInput(input) == IF Len(input) = 0 THEN <<"">> ELSE input

tokenize(input) == SelectSeq(Append(splitInput(input), "$"), LAMBDA t : t # "")

\* A stack entry is a number (a state) or a string (a symbol name).
StateEntry(n) == [kind |-> "number", state |-> n, name |-> ""]

SymbolEntry(name) == [kind |-> "string", state |-> -1, name |-> name]

entryToString(x) == IF x.kind = "number" THEN ToString(x.state) ELSE x.name

ParseNode(symbol, children) == [symbol |-> symbol, children |-> children]

\* inputTokens[ip], undefined past the end.
Undefined == "undefined"

currentTokenAt(tokens, i) == IF i < Len(tokens) THEN tokens[i + 1] ELSE Undefined

\* table.action.get(topState)?.get(currentToken); found = FALSE is undefined.
actionAt(table, topState, token) ==
  IF MapHas(table.action, topState) /\ MapHas(table.action[topState], token)
  THEN [found |-> TRUE, action |-> table.action[topState][token]]
  ELSE [found |-> FALSE, action |-> AcceptAction]

\* table.goto.get(prevState)?.get(lhs); -1 is undefined.
gotoAt(table, prevState, lhs) ==
  IF MapHas(table.goto, prevState) /\ MapHas(table.goto[prevState], lhs)
  THEN table.goto[prevState][lhs] ELSE -1

popN(s, n) == SubSeq(s, 1, Max(0, Len(s) - n))

reverse(s) == [k \in DOMAIN s |-> s[Len(s) + 1 - k]]

topState == stack[Len(stack)].state

currentToken == currentTokenAt(inputTokens, ip)

currentAction == actionAt(parsingTable, topState, currentToken)

\* stepLog with the whole of inputTokens as its input, not the slice from
\* the cursor.
stepLogWholeInput(actionText) ==
  [step |-> stepCount,
   stack |-> [k \in DOMAIN stack |-> entryToString(stack[k])],
   input |-> inputTokens,
   action |-> actionText]

\* The trace entry of this iteration; `action` is set by the branch taken.
stepLog(actionText) ==
  [step |-> stepCount,
   stack |-> [k \in DOMAIN stack |-> entryToString(stack[k])],
   input |-> SubSeq(inputTokens, ip + 1, Len(inputTokens)),
   action |-> actionText]

\* The texts of a step's action: "ERROR", "Shift a", "Reduce by A -> x", "ACCEPT".
stepText(kind, token, production) ==
  [kind |-> kind, token |-> token, production |-> production]

\* The error text of a result; kind "" is no error.
NoError == [kind |-> "", token |-> "", state |-> -1, expected |-> {}, symbol |-> ""]

SyntaxErrorText(token, state, expected) ==
  [kind |-> "Syntax Error", token |-> token, state |-> state,
   expected |-> expected, symbol |-> ""]

GotoErrorText(state, symbol) ==
  [kind |-> "GOTO Error", token |-> "", state |-> state, expected |-> {},
   symbol |-> symbol]

\* A ParseResult; parseTree is <<>> when undefined, else <<root>>.
ParseResult(trace, accepted, err, parseTree) ==
  [steps |-> trace, accepted |-> accepted, error |-> err, parseTree |-> parseTree]

\* The texts one edit of the input box makes of a text: a token typed at
\* its end, or its last token deleted.
InputStrings(g, text) ==
  {text \o <<t>> : t \in IF Len(text) < MaxInputLen THEN g.terminals \cup {"$"} ELSE {}}
    \cup (IF Len(text) > 0 THEN {SubSeq(text, 1, Len(text) - 1)} ELSE {})

setInputString ==
  /\ pc = "ready"
  /\ \E s \in InputStrings(grammar, inputString) : inputString' = s
  /\ UNCHANGED <<pc>>
  /\ UNCHANGED labVars
  /\ UNCHANGED driverVars
  /\ UNCHANGED playVars

\* The body of handleParse up to the first iteration of the driver loop;
\* without a grammar or a table it returns at once.  What it sets of the
\* playback is committed when parseString has returned.
parseRequested ==
  /\ IF grammar = NullGrammar \/ parsingTable = NullTable
     THEN UNCHANGED <<pc, inputTokens, stack, nodeStack, ip, stepCount, steps,
                      parseResult>>
     ELSE /\ inputTokens' = tokenize(inputString)
          /\ stack' = <<StateEntry(0)>>
          /\ nodeStack' = <<>>
          /\ ip' = 0
          /\ stepCount' = 0
          /\ steps' = <<>>
          /\ parseResult' = <<>>
          /\ pc' = "parsing"
  /\ UNCHANGED <<inputString>>
  /\ UNCHANGED labVars
  /\ UNCHANGED playVars

handleParse == pc \in {"ready", "failed"} /\ parseRequested

\* parseResult.steps.map((s, i) => ({ ...s, step: i + 1 }))
renumbered(trace) == [k \in DOMAIN trace |-> [trace[k] EXCEPT !.step = k]]

\* handleParse once parseString has returned its trace: the playback starts
\* from the first step.
traceShown(trace) == commit(TRUE, 0, <<>>, renumbered(trace))

looping == pc = "parsing" /\ stepCount < MaxSteps

\* parseError without steps.push(stepLog): the result has the earlier steps only.
parseErrorUnlogged ==
  /\ looping
  /\ ~currentAction.found
  /\ LET expected == IF MapHas(parsingTable.action, topState)
                     THEN DOMAIN parsingTable.action[topState] ELSE {}
     IN /\ steps' = steps
        /\ parseResult' = <<ParseResult(steps, FALSE,
                              SyntaxErrorText(currentToken, topState, expected), <<>>)>>
        /\ traceShown(steps)
  /\ stepCount' = stepCount + 1
  /\ pc' = "done"
  /\ UNCHANGED <<inputString, inputTokens, stack, nodeStack, ip>>
  /\ UNCHANGED labVars

parseError ==
  /\ looping
  /\ ~currentAction.found
  /\ LET expected == IF MapHas(parsingTable.action, topState)
                     THEN DOMAIN parsingTable.action[topState] ELSE {}
         trace == Append(steps, stepLog(stepText("ERROR", "", <<>>)))
     IN /\ steps' = trace
        /\ parseResult' = <<ParseResult(trace, FALSE,
                              SyntaxErrorText(currentToken, topState, expected), <<>>)>>
        /\ traceShown(trace)
  /\ stepCount' = stepCount + 1
  /\ pc' = "done"
  /\ UNCHANGED <<inputString, inputTokens, stack, nodeStack, ip>>
  /\ UNCHANGED labVars

\* parseShift without nodeStack.push: no leaf is made for the token.
parseShiftWithoutLeaf ==
  /\ looping
  /\ currentAction.found /\ currentAction.action.type = SHIFT
  /\ steps' = Append(steps, stepLog(stepText("Shift", currentToken, <<>>)))
  /\ stack' = stack \o <<SymbolEntry(currentToken), StateEntry(currentAction.action.value)>>
  /\ ip' = ip + 1
  /\ stepCount' = stepCount + 1
  /\ UNCHANGED <<inputString, inputTokens, parseResult, pc, nodeStack>>
  /\ UNCHANGED labVars
  /\ UNCHANGED playVars

parseShift ==
  /\ looping
  /\ currentAction.found /\ currentAction.action.type = SHIFT
  /\ steps' = Append(steps, stepLog(stepText("Shift", currentToken, <<>>)))
  /\ stack' = stack \o <<SymbolEntry(currentToken), StateEntry(currentAction.action.value)>>
  /\ nodeStack' = Append(nodeStack, ParseNode(currentToken, <<>>))
  /\ ip' = ip + 1
  /\ stepCount' = stepCount + 1
  /\ UNCHANGED <<inputString, inputTokens, parseResult, pc>>
  /\ UNCHANGED labVars
  /\ UNCHANGED playVars

\* parseReduce without the test of nextState: the undefined state is pushed.
parseReduceUnchecked ==
  /\ looping
  /\ currentAction.found /\ currentAction.action.type = REDUCE
  /\ LET act == currentAction.action
         len == act.productionRhsLen
         popped == popN(stack, 2 * len)
         kept == popN(nodeStack, len)
         children == SubSeq(nodeStack, Len(kept) + 1, Len(nodeStack))
         prevState == IF Len(popped) > 0 THEN popped[Len(popped)].state ELSE -1
     IN /\ steps' = Append(steps, stepLog(stepText("Reduce by", "", act.productionStr)))
        /\ nodeStack' = Append(kept, ParseNode(act.productionLhs,
                           IF len = 0 THEN <<ParseNode(EPSILON, <<>>)>> ELSE children))
        /\ stack' = popped \o <<SymbolEntry(act.productionLhs),
                                 StateEntry(gotoAt(parsingTable, prevState,
                                                   act.productionLhs))>>
  /\ stepCount' = stepCount + 1
  /\ UNCHANGED <<inputString, inputTokens, ip, parseResult, pc>>
  /\ UNCHANGED labVars
  /\ UNCHANGED playVars

parseReduce ==
  /\ looping
  /\ currentAction.found /\ currentAction.action.type = REDUCE
  /\ LET act == currentAction.action
         len == act.productionRhsLen
         trace == Append(steps, stepLog(stepText("Reduce by", "", act.productionStr)))
         popped == popN(stack, 2 * len)
         kept == popN(nodeStack, len)
         children == SubSeq(nodeStack, Len(kept) + 1, Len(nodeStack))
         lhsNode == ParseNode(act.productionLhs,
                      IF len = 0 THEN <<ParseNode(EPSILON, <<>>)>> ELSE children)
         prevState == IF Len(popped) > 0 THEN popped[Len(popped)].state ELSE -1
         lhs == act.productionLhs
         nextState == gotoAt(parsingTable, prevState, lhs)
     IN /\ steps' = trace
        /\ nodeStack' = Append(kept, lhsNode)
        /\ IF nextState = -1
           THEN /\ stack' = popped
                /\ parseResult' = <<ParseResult(trace, FALSE,
                                      GotoErrorText(prevState, lhs), <<>>)>>
                /\ pc' = "done"
                /\ traceShown(trace)
           ELSE /\ stack' = popped \o <<SymbolEntry(lhs), StateEntry(nextState)>>
                /\ UNCHANGED <<parseResult, pc>>
                /\ UNCHANGED playVars
  /\ stepCount' = stepCount + 1
  /\ UNCHANGED <<inputString, inputTokens, ip>>
  /\ UNCHANGED labVars

parseAccept ==
  /\ looping
  /\ currentAction.found /\ currentAction.action.type = ACCEPT
  /\ LET trace == Append(steps, stepLog(stepText("ACCEPT", "", <<>>)))
         parseTree == IF Len(nodeStack) > 0 THEN <<nodeStack[Len(nodeStack)]>> ELSE <<>>
     IN /\ steps' = trace
        /\ parseResult' = <<ParseResult(trace, TRUE, NoError, parseTree)>>
        /\ traceShown(trace)
  /\ stepCount' = stepCount + 1
  /\ pc' = "done"
  /\ UNCHANGED <<inputString, inputTokens, stack, nodeStack, ip>>
  /\ UNCHANGED labVars

Next ==
  \/ handleGenerate
  \/ setGrammarInput
  \/ loadSample
  \/ setInputString
  \/ handleParse
  \/ parseError
  \/ parseShift
  \/ parseReduce
  \/ parseAccept

Spec == Init /\ [][Next]_vars

----------------------------------------------------------------------------
(* buildCanonicalCollection step by step: one action is one pass or one    *)
(* iteration of a loop of buildCanonicalCollection or of the closure call  *)
(* it is waiting for.  build.pc is the loop the run is in.                 *)

\* LR1Item.equals: the production by reference, the dot, the lookahead name.
itemEquals(a, b) ==
  /\ a.production = b.production
  /\ a.dotPosition = b.dotPosition
  /\ a.lookahead.name = b.lookahead.name

\* if (!result.some(existing => existing.equals(newItem))) result.push(newItem)
scanPush(result, newItem) ==
  IF \E k \in DOMAIN result : itemEquals(result[k], newItem) THEN result
  ELSE Append(result, newItem)

\* prodB.forEach(prod => firstSet.forEach(term => ...)) of the first half.
RECURSIVE scanAdd(_, _, _, _, _)
scanAdd(prodB, firstSet, p, t, result) ==
  IF p > Len(prodB) THEN result
  ELSE IF t > Len(firstSet) THEN scanAdd(prodB, firstSet, p + 1, 1, result)
  ELSE scanAdd(prodB, firstSet, p, t + 1,
         IF firstSet[t] = EPSILON THEN result
         ELSE scanPush(result, LR1Item(prodB[p], 0, lookaheadSymbol(firstSet[t]))))

scanExpand(item, result, g) ==
  IF nextSymbol(item) # NoSymbol /\ nextSymbol(item).type = NON_TERMINAL
  THEN scanAdd(getProductionsFor(g, nextSymbol(item)),
               firstOfSequence(
                 Append(SubSeq(item.production.rhs, item.dotPosition + 2,
                               Len(item.production.rhs)),
                        item.lookahead), g),
               1, 1, result)
  ELSE result

\* for (let i = 0; i < currentSize; i++) of the first half of closure.
RECURSIVE scanPass(_, _, _, _)
scanPass(result, idx, currentSize, g) ==
  IF idx >= currentSize THEN result
  ELSE scanPass(scanExpand(result[idx + 1], result, g), idx + 1, currentSize, g)

\* The call closure(items, grammar): caller tells where it returns to.
closureCall(b, items, caller) ==
  [b EXCEPT !.pc = "scan", !.caller = caller, !.items = items,
            !.result = items, !.scanChanged = TRUE]

\* The locals of buildCanonicalCollection at its call of closure([startItem]).
buildStart(g) ==
  closureCall([pc |-> "start", caller |-> "", items |-> <<>>, result |-> <<>>,
               scanChanged |-> FALSE, closureSet |-> <<>>, processed |-> {},
               queue |-> <<>>, states |-> <<>>, transitions |-> EmptyMap,
               changed |-> FALSE, i |-> 0, symbols |-> <<>>, k |-> 0],
              <<LR1Item(g.productions[1], 0, Symbol("$", END))>>, "start")

\* The variables a step of the run leaves alone.
buildFrame ==
  /\ UNCHANGED <<grammarInput, inputString, grammar, parsingTable, consoleWarn, error, pc>>
  /\ UNCHANGED driverVars
  /\ UNCHANGED playVars

BuildInit ==
  /\ grammarInput \in {text \in GrammarTexts : parseGrammar(text).ok}
  /\ grammar = parseGrammar(grammarInput).grammar
  /\ inputString = <<>>
  /\ parsingTable = NullTable
  /\ consoleWarn = <<>>
  /\ error = ""
  /\ pc = "generating"
  /\ inputTokens = <<>>
  /\ stack = <<>>
  /\ nodeStack = <<>>
  /\ ip = 0
  /\ stepCount = 0
  /\ steps = <<>>
  /\ parseResult = <<>>
  /\ build = buildStart(grammar)
  /\ noPlayback

\* One pass of while (changed) of the first half of closure.
closureScan ==
  /\ build.pc = "scan" /\ build.scanChanged
  /\ LET scanned == scanPass(build.result, 0, Len(build.result), grammar)
     IN build' = [build EXCEPT !.result = scanned,
                               !.scanChanged = Len(scanned) # Len(build.result)]
  /\ buildFrame

\* The first half is over: closureSet, processed and queue are set up.
closureQueue ==
  /\ build.pc = "scan" /\ ~build.scanChanged
  /\ build' = [build EXCEPT !.pc = "queue", !.closureSet = build.items,
                            !.processed = itemStrings(build.items),
                            !.queue = build.items]
  /\ buildFrame

\* One iteration of while (queue.length > 0).
closureStep ==
  /\ build.pc = "queue" /\ Len(build.queue) > 0
  /\ LET w == closureExpand(Head(build.queue),
                            Worklist(build.closureSet, build.processed,
                                     Tail(build.queue)),
                            grammar)
     IN build' = [build EXCEPT !.closureSet = w.closureSet,
                               !.processed = w.processed, !.queue = w.queue]
  /\ buildFrame

\* closure returns the initial closure: states = [initialClosure].
collectionStart ==
  /\ build.pc = "queue" /\ Len(build.queue) = 0 /\ build.caller = "start"
  /\ build' = [build EXCEPT !.pc = "while", !.states = <<build.closureSet>>,
                            !.transitions = EmptyMap, !.changed = TRUE]
  /\ buildFrame

\* while (changed) { changed = false; for (let i = 0; ...
collectionWhileTest ==
  /\ build.pc = "while"
  /\ build' = IF build.changed
              THEN [build EXCEPT !.pc = "for", !.changed = FALSE, !.i = 0]
              ELSE [build EXCEPT !.pc = "built"]
  /\ buildFrame

\* i < states.length, and the symbols of state i collected.
collectionForTest ==
  /\ build.pc = "for"
  /\ build' = IF build.i < Len(build.states)
              THEN [build EXCEPT !.pc = "symbols", !.k = 1,
                      !.symbols = symbolsAfterDot(build.states[build.i + 1], 1, <<>>)]
              ELSE [build EXCEPT !.pc = "while"]
  /\ buildFrame

\* symbols.forEach: the call of goto for the next name, or i++ after the last.
collectionSymbol ==
  /\ build.pc = "symbols"
  /\ build' = IF build.k <= Len(build.symbols)
              THEN closureCall(build,
                               movedOver(build.states[build.i + 1],
                                         build.symbols[build.k]),
                               "goto")
              ELSE [build EXCEPT !.pc = "for", !.i = build.i + 1]
  /\ buildFrame

\* goto has returned: the search for an equal state, the push, the transition.
collectionLinked ==
  /\ build.pc = "queue" /\ Len(build.queue) = 0 /\ build.caller = "goto"
  /\ LET c == collectionGoto(Collection(build.states, build.transitions, build.changed),
                             build.i, build.symbols[build.k], build.closureSet)
     IN build' = [build EXCEPT !.pc = "symbols", !.k = build.k + 1,
                               !.states = c.states, !.transitions = c.transitions,
                               !.changed = c.changed]
  /\ buildFrame

BuildNext ==
  \/ closureScan
  \/ closureQueue
  \/ closureStep
  \/ collectionStart
  \/ collectionWhileTest
  \/ collectionForTest
  \/ collectionSymbol
  \/ collectionLinked

\* buildCanonicalCollection is one synchronous call: it keeps running.
BuildSpec == BuildInit /\ [][BuildNext]_vars /\ WF_vars(BuildNext)

----------------------------------------------------------------------------
(* Vocabulary of the properties.                                           *)

\* The lab holds the table that handleGenerate has just published.
Published == pc = "ready" /\ inputString = <<>>

\* parseString has returned, and with accepted = true.
Returned == pc = "done"

Accepted == pc = "done" /\ parseResult[1].accepted

StateIndices == 0..(Len(parsingTable.states) - 1)

\* The original start symbol S, the rhs of production 0.
OriginalStart == grammar.productions[1].rhs[1].name

\* The left-to-right terminal leaves of a tree, the synthetic leaves for
\* the empty string left out.
RECURSIVE yield(_)
RECURSIVE yieldOfAll(_, _)
yieldOfAll(children, k) ==
  IF k > Len(children) THEN <<>>
  ELSE yield(children[k]) \o yieldOfAll(children, k + 1)

yield(node) ==
  IF Len(node.children) = 0
  THEN IF node.symbol = EPSILON THEN <<>> ELSE <<node.symbol>>
  ELSE yieldOfAll(node.children, 1)

\* The productions <<lhs, rhs names>> of the Reduce steps of a trace, in order.
reductionsOf(trace) ==
  LET reduces == SelectSeq(trace, LAMBDA st : st.action.kind = "Reduce by")
  IN [k \in DOMAIN reduces |-> reduces[k].action.production]

\* The sentential form reached from `form` by expanding, production after
\* production from the last to the first, the rightmost non-terminal; ok is
\* FALSE when a production does not fit the rightmost non-terminal.
RECURSIVE rightmostDerivation(_, _, _)
rightmostDerivation(form, productions, k) ==
  IF k = 0 THEN [ok |-> TRUE, form |-> form]
  ELSE LET at == {h \in DOMAIN form : form[h] \in grammar.nonTerminals}
       IN IF at = {} THEN [ok |-> FALSE, form |-> form]
          ELSE LET h == CHOOSE h \in at : \A h2 \in at : h2 <= h
               IN IF form[h] # productions[k][1] THEN [ok |-> FALSE, form |-> form]
                  ELSE rightmostDerivation(
                         SubSeq(form, 1, h - 1) \o productions[k][2] \o
                           SubSeq(form, h + 1, Len(form)),
                         productions, k - 1)

\* FIRST as the least fixed point of the rule: for X -> Y1...Yk add
\* FIRST(Y1) without the empty string, go on to Y2 while the empty string
\* is in FIRST(Y1), and add the empty string when every Yi admits it.
RECURSIVE firstOfRhsIn(_, _, _)
firstOfRhsIn(F, rhs, j) ==
  IF j > Len(rhs) THEN {EPSILON}
  ELSE LET f == IF rhs[j].type = NON_TERMINAL THEN F[rhs[j].name] ELSE {rhs[j].name}
       IN (f \ {EPSILON}) \cup (IF EPSILON \in f THEN firstOfRhsIn(F, rhs, j + 1) ELSE {})

firstRule(F, g) ==
  [X \in DOMAIN F |->
     UNION {firstOfRhsIn(F, g.productions[p].rhs, 1) :
              p \in {p \in DOMAIN g.productions : g.productions[p].lhs.name = X}}]

RECURSIVE firstFixedPoint(_, _)
firstFixedPoint(F, g) ==
  IF firstRule(F, g) = F THEN F ELSE firstFixedPoint(firstRule(F, g), g)

LeastFirst(g) == firstFixedPoint([X \in g.nonTerminals |-> {}], g)

\* The keys of the writes of a row that wrote a cell an earlier write of the
\* row had given another action.
conflictCells(writes) ==
  {writes[q].key : q \in {q \in DOMAIN writes :
      \E r \in 1..(q - 1) : /\ writes[r].key = writes[q].key
                            /\ writes[r].action # writes[q].action}}

\* The action of the first write of a row to a cell.
firstWritten(writes, key) ==
  writes[CHOOSE q \in DOMAIN writes :
           /\ writes[q].key = key
           /\ \A r \in 1..(q - 1) : writes[r].key # key].action

conflictReported(i, key) ==
  \E w \in DOMAIN consoleWarn : consoleWarn[w].state = i /\ consoleWarn[w].symbol = key

\* A configuration of the driver (stack, remaining input) that the trace
\* shows twice: the loop is deterministic, so from the second one on it
\* repeats the steps between the two for ever.
DriverRepeats ==
  \E j, k \in DOMAIN steps :
     j < k /\ steps[j].stack = steps[k].stack /\ steps[j].input = steps[k].input

sameItems(s1, s2) == Range(s1) = Range(s2)

\* Some item of the state has a symbol of the type and the name after its dot.
hasAfterDot(state, type, name) ==
  \E k \in DOMAIN state : nextSymbol(state[k]) = Symbol(name, type)

\* Every name that can be a key of a table of the grammar.
AllNames == grammar.terminals \cup grammar.nonTerminals \cup {"$"}

----------------------------------------------------------------------------
(* Properties.                                                             *)

\* C1: whenever parseString returns accepted = true, the terminal leaves of
\* the returned parse tree, left to right and without the synthetic leaves
\* for the empty string, are the input token sequence.  Stated for the
\* inputs that hold no end marker, the only ones the input format allows.
C1_YieldIsInput ==
  (Accepted /\ "$" \notin Range(inputString)) =>
     /\ parseResult[1].parseTree # <<>>
     /\ yield(parseResult[1].parseTree[1]) = inputString

\* C2: whenever parseString returns accepted = true, the productions of the
\* Reduce steps of the trace, taken in reverse, are a rightmost derivation of
\* the input from the original start symbol S, and the root of the returned
\* tree is labelled S.  Stated for the inputs that hold no end marker.
C2_RightmostDerivationOfInput ==
  (Accepted /\ "$" \notin Range(inputString)) =>
     /\ parseResult[1].parseTree # <<>>
     /\ parseResult[1].parseTree[1].symbol = OriginalStart
     /\ LET reductions == reductionsOf(parseResult[1].steps)
            derived == rightmostDerivation(<<OriginalStart>>, reductions, Len(reductions))
        IN derived.ok /\ derived.form = inputString

\* C3: for every grammar and every input the step loop of parseString
\* returns after a bounded number of steps; in particular it never comes
\* back to a configuration it has been in, from which it would run for ever.
\* Stated for the inputs that hold no end marker.
C3_LoopReturns == "$" \notin Range(inputString) => ~DriverRepeats

\* C4: for every non-terminal X of the parsed grammar, first(X) is the FIRST
\* set of X, the least fixed point of the rule of the FIRST engine.
C4_FirstIsLeastFixedPoint ==
  Published =>
     \A X \in grammar.nonTerminals :
        Range(first(Symbol(X, NON_TERMINAL), grammar, {})) = LeastFirst(grammar)[X]

\* C5: every ACTION cell [i, a] that buildParsingTable writes a second time
\* with a different action is reported as a conflict for state i and
\* terminal a (the warnings of the build are the only conflict report the
\* generator has).
C5_ConflictsReported ==
  Published =>
     \A i \in StateIndices :
        \A key \in conflictCells(tableBuild(grammar).writes[i]) : conflictReported(i, key)

\* C6: an ACTION cell that has been written keeps the action written first.
C6_FirstWriteKept ==
  Published =>
     \A i \in StateIndices :
        \A key \in DOMAIN parsingTable.action[i] :
           parsingTable.action[i][key] = firstWritten(tableBuild(grammar).writes[i], key)

\* C7: for every state i and item of it with a terminal X after the dot, if
\* the transition of i on X exists then ACTION[i, X] is the shift to it.
C7_ShiftOnTerminalAfterDot ==
  Published =>
     LET collection == buildCanonicalCollection(grammar)
     IN \A i \in StateIndices :
           \A k \in DOMAIN parsingTable.states[i + 1] :
              LET X == nextSymbol(parsingTable.states[i + 1][k])
              IN (X # NoSymbol /\ X.type = TERMINAL /\ transitionOf(collection, i, X.name) # -1)
                    => /\ MapHas(parsingTable.action[i], X.name)
                       /\ parsingTable.action[i][X.name] =
                            ShiftAction(transitionOf(collection, i, X.name))

\* The complete item [S' -> S . , $] of production 0.
isAcceptItem(item) ==
  /\ item.production.id = 0
  /\ item.dotPosition = Len(item.production.rhs)
  /\ item.lookahead.name = "$"

\* C8: ACTION[i, $] is Accept if and only if state i holds the complete item
\* [S' -> S . , $] of production 0.
C8_AcceptIffStartItem ==
  Published =>
     \A i \in StateIndices :
        (MapHas(parsingTable.action[i], "$") /\ parsingTable.action[i]["$"].type = ACCEPT)
           <=> (\E k \in DOMAIN parsingTable.states[i + 1] :
                   isAcceptItem(parsingTable.states[i + 1][k]))

\* The cell holds an entry that was there before the reduce of the item was
\* written and the cell was reported as a conflict.
keptWithConflict(i, writes, key, production) ==
  /\ conflictReported(i, key)
  /\ parsingTable.action[i][key].type \in {SHIFT, REDUCE}
  /\ \E q \in DOMAIN writes :
        /\ writes[q].key = key /\ writes[q].action = ReduceAction(production)
        /\ \E r \in 1..(q - 1) :
              writes[r].key = key /\ writes[r].action = parsingTable.action[i][key]

\* C9: for every complete item [A -> alpha . , a] of state i with A other
\* than S', ACTION[i, a] is the reduce by A -> alpha, or an entry that was
\* there before and has been marked as a conflict; never absent, never Accept.
C9_CompleteItemReduces ==
  Published =>
     \A i \in StateIndices :
        \A k \in DOMAIN parsingTable.states[i + 1] :
           LET item == parsingTable.states[i + 1][k]
               a == item.lookahead.name
           IN (nextSymbol(item) = NoSymbol /\ item.production.lhs.name # grammar.startSymbol.name)
                 => /\ MapHas(parsingTable.action[i], a)
                    /\ \/ parsingTable.action[i][a] = ReduceAction(item.production)
                       \/ keptWithConflict(i, tableBuild(grammar).writes[i], a,
                                           item.production)

\* The GOTO entries of state i are right but for the names in `unkeyed`:
\* defined exactly for the other names that a non-terminal after a dot of
\* the state has, the target being the state with the items of closure of
\* the moved items, and no key a terminal or $.
gotoRowRight(i, unkeyed) ==
  \A X \in AllNames \cup DOMAIN parsingTable.goto[i] :
     /\ MapHas(parsingTable.goto[i], X)
           <=> (X \notin unkeyed /\ hasAfterDot(parsingTable.states[i + 1], NON_TERMINAL, X))
     /\ MapHas(parsingTable.goto[i], X)
           => /\ parsingTable.goto[i][X] \in StateIndices
              /\ sameItems(parsingTable.states[parsingTable.goto[i][X] + 1],
                           closure(movedOver(parsingTable.states[i + 1], X), grammar))
              /\ X \notin grammar.terminals /\ X # "$"

----------------------------------------------------------------------------
(* Closure and the canonical collection.                                   *)

\* The items the closure rule forces for one item [A -> alpha . B beta, a]:
\* [B -> . gamma, b] for every production B -> gamma and every b of
\* FIRST(beta a) but the empty string.
closureForced(item, g) ==
  IF nextSymbol(item) # NoSymbol /\ nextSymbol(item).type = NON_TERMINAL
  THEN {LR1Item(g.productions[p], 0, lookaheadSymbol(b)) :
          p \in {p \in DOMAIN g.productions :
                   g.productions[p].lhs.name = nextSymbol(item).name},
          b \in Range(firstOfSequence(
                        Append(SubSeq(item.production.rhs, item.dotPosition + 2,
                                      Len(item.production.rhs)),
                               item.lookahead), g)) \ {EPSILON}}
  ELSE {}

\* The least set of items that contains S and is closed under the rule.
RECURSIVE leastClosure(_, _)
leastClosure(S, g) ==
  IF UNION {closureForced(item, g) : item \in S} \subseteq S THEN S
  ELSE leastClosure(S \cup UNION {closureForced(item, g) : item \in S}, g)

\* The item lists closure is called with while the collection of the
\* published grammar is built: the start item, and the items of a state
\* moved over a name.
closureKernels ==
  {<<LR1Item(grammar.productions[1], 0, Symbol("$", END))>>} \cup
  {movedOver(parsingTable.states[i + 1], X) : i \in StateIndices, X \in AllNames}

\* C11: closure(I) is the least set that contains I and is closed under the
\* closure rule, FIRST being the one the FIRST engine computes: it holds
\* every item of I, every item the rule forces and no other.  An item is
\* the production A -> alpha (its lhs and rhs), the dot position and the
\* lookahead name.
C11_ClosureIsLeastClosedSet ==
  Published =>
     \A I \in closureKernels :
        itemStrings(closure(I, grammar)) =
          {itemToString(item) : item \in leastClosure(Range(I), grammar)}

\* closure has added to a kernel an item whose lookahead comes from the
\* symbols after the non-terminal and not from the lookahead of the kernel.
C11_Witness ==
  /\ Published
  /\ \E I \in closureKernels :
        \E item \in Range(closure(I, grammar)) :
           /\ item \notin Range(I)
           /\ \A k \in DOMAIN I : I[k].lookahead.name # item.lookahead.name

\* The symbols after the symbol that follows the dot of an item.
afterNext(item) ==
  SubSeq(item.production.rhs, item.dotPosition + 2, Len(item.production.rhs))

\* C12: no item of a state of the canonical collection, and no item that
\* closure returns for the item lists the collection is built from, has the
\* empty string as its lookahead, whatever empty productions and nullable
\* non-terminals the grammar has.
C12_NoEpsilonLookahead ==
  Published =>
     /\ \A i \in StateIndices :
           \A k \in DOMAIN parsingTable.states[i + 1] :
              parsingTable.states[i + 1][k].lookahead.name # EPSILON
     /\ \A I \in closureKernels :
           \A item \in Range(closure(I, grammar)) : item.lookahead.name # EPSILON

\* A state holds the item of an empty production and an item whose
\* non-terminal after the dot is followed by symbols that derive the empty
\* string.
C12_Witness ==
  /\ Published
  /\ \E i \in StateIndices :
        /\ \E k \in DOMAIN parsingTable.states[i + 1] :
              Len(parsingTable.states[i + 1][k].production.rhs) = 0
        /\ \E k \in DOMAIN parsingTable.states[i + 1] :
              LET item == parsingTable.states[i + 1][k]
              IN /\ nextSymbol(item) # NoSymbol
                 /\ nextSymbol(item).type = NON_TERMINAL
                 /\ Len(afterNext(item)) > 0
                 /\ EPSILON \in Range(firstOfSequence(afterNext(item), grammar))

\* An item as the spec identifies it: production, dot position, lookahead name.
itemKey(item) == <<item.production, item.dotPosition, item.lookahead.name>>

itemKeys(items) == {itemKey(items[k]) : k \in DOMAIN items}

\* C13: no two states at different indices of the collection hold the same
\* set of items, items compared by production, dot position and lookahead
\* name and their order in the state ignored.
C13_NoTwoStatesSetEqual ==
  Published =>
     \A i, j \in StateIndices :
        i # j => itemKeys(parsingTable.states[i + 1]) # itemKeys(parsingTable.states[j + 1])

\* Two transitions from different states lead to one state of several
\* items: the search for an equal state has found it.
C13_Witness ==
  /\ Published
  /\ \E i, j \in StateIndices : \E X \in AllNames :
        /\ i # j
        /\ transitionOf(buildCanonicalCollection(grammar), i, X) # -1
        /\ transitionOf(buildCanonicalCollection(grammar), i, X) =
             transitionOf(buildCanonicalCollection(grammar), j, X)
        /\ Len(parsingTable.states[
                 transitionOf(buildCanonicalCollection(grammar), i, X) + 1]) > 1

\* Some item of the state has a symbol of the name after its dot.
nameAfterDot(state, name) ==
  \E k \in DOMAIN state : nextSymbol(state[k]) # NoSymbol /\ nextSymbol(state[k]).name = name

\* The names the transitions of state i of a collection are defined for.
transitionNames(collection, i) ==
  IF MapHas(collection.transitions, i) THEN DOMAIN collection.transitions[i] ELSE {}

\* The transitions of a collection are those of its states: defined for
\* the names after a dot, each one leading to a state of the collection
\* that is set-equal to goto, and every state but the first one led to.
transitionsRight(collection, g) ==
  LET indices == 0..(Len(collection.states) - 1)
  IN /\ DOMAIN collection.transitions \subseteq indices
     /\ \A i \in indices :
           \A X \in AllNames \cup transitionNames(collection, i) :
              /\ transitionOf(collection, i, X) # -1
                    <=> nameAfterDot(collection.states[i + 1], X)
              /\ transitionOf(collection, i, X) # -1
                    => /\ transitionOf(collection, i, X) \in indices
                       /\ itemKeys(collection.states[transitionOf(collection, i, X) + 1])
                            = itemKeys(goto(collection.states[i + 1], X, g))
     /\ \A j \in indices \ {0} :
           \E i \in indices : \E X \in transitionNames(collection, i) :
              collection.transitions[i][X] = j

\* C14: in the collection buildCanonicalCollection returns, the transition
\* of state i on the name X is defined if and only if an item of state i has
\* X after its dot, and then it leads to the state set-equal to
\* goto(state i, X); every target is the index of a state and every state
\* but state 0 is the target of a transition.
C14_TransitionsAreGotos ==
  Published => transitionsRight(buildCanonicalCollection(grammar), grammar)

\* A collection with a transition to a state that was there before its
\* source was expanded (a loop or an edge back), on a terminal, and a
\* transition on a non-terminal.
C14_Witness ==
  /\ Published
  /\ LET collection == buildCanonicalCollection(grammar)
     IN \E i \in StateIndices :
           /\ \E X \in transitionNames(collection, i) \cap grammar.terminals :
                 collection.transitions[i][X] <= i
           /\ transitionNames(collection, i) \cap grammar.nonTerminals # {}

----------------------------------------------------------------------------
(* The grammar parseGrammar returns.                                      *)

\* The productions of the user's rules: all but production 0.
userProductions == Tail(grammar.productions)

\* The symbol names of the user's rules.
userNames ==
  {userProductions[p].lhs.name : p \in DOMAIN userProductions} \cup
  UNION {Range(SymbolNames(userProductions[p].rhs)) : p \in DOMAIN userProductions}

\* C15: the augmented start symbol of a parsed grammar is fresh: its name
\* is no symbol name of the user's rules, and production 0 is the only
\* production that has it as its lhs.
C15_AugmentedStartIsFresh ==
  Published =>
     /\ grammar.startSymbol.name \notin userNames
     /\ \A p \in DOMAIN grammar.productions :
           grammar.productions[p].lhs.name = grammar.startSymbol.name
              => grammar.productions[p].id = 0

\* A line of the grammar text that lacks the arrow or has an empty lhs.
malformedLine(line) == ~line.arrow \/ line.lhs = ""

\* Generate has run on the grammar text.
Generated == pc # "edit"

\* C16: when a line of the grammar text lacks the arrow or has an empty
\* lhs, parseGrammar fails and returns no grammar: the lab holds no grammar
\* and no table, and shows the error.
C16_MalformedRuleFails ==
  (Generated /\ \E k \in DOMAIN grammarInput : malformedLine(grammarInput[k]))
     => (grammar = NullGrammar /\ parsingTable = NullTable /\ error # "")

\* The names that are the lhs of a production of the grammar.
lhsOfProductions(g) == {g.productions[p].lhs.name : p \in DOMAIN g.productions}

\* The symbols on the rhs of the productions of the grammar.
rhsSymbols(g) == UNION {Range(g.productions[p].rhs) : p \in DOMAIN g.productions}

\* C17: in a parsed grammar a name is a non-terminal if and only if it is
\* the lhs of a production, every other name of a rhs is a terminal, no
\* name is both, and every rhs symbol has the tag of the set its name is in.
C17_SymbolsClassifiedByLhs ==
  Published =>
     /\ grammar.nonTerminals = lhsOfProductions(grammar)
     /\ \A s \in rhsSymbols(grammar) :
           s.name \notin lhsOfProductions(grammar) => s.name \in grammar.terminals
     /\ grammar.terminals \cap grammar.nonTerminals = {}
     /\ \A s \in rhsSymbols(grammar) :
           \/ s.type = TERMINAL /\ s.name \in grammar.terminals
           \/ s.type = NON_TERMINAL /\ s.name \in grammar.nonTerminals

----------------------------------------------------------------------------
(* The driver's errors.                                                    *)

\* The terminals and $ for which ACTION[s, .] is defined.
expectedTerminals(s) ==
  IF MapHas(parsingTable.action, s)
  THEN {t \in grammar.terminals \cup {"$"} : MapHas(parsingTable.action[s], t)}
  ELSE {}

\* The loop is about to run an iteration in which ACTION[s, a] is absent.
actionAbsent == pc = "parsing" /\ ~currentAction.found

\* The result returned for an absent action: not accepted, no tree, the
\* error naming the token, the state and the expected terminals, the trace
\* being the earlier steps and one last step ERROR.
syntaxErrorReturned ==
  /\ pc' = "done"
  /\ Len(parseResult') = 1
  /\ ~parseResult'[1].accepted
  /\ parseResult'[1].parseTree = <<>>
  /\ parseResult'[1].error.kind = "Syntax Error"
  /\ parseResult'[1].error.token = currentToken
  /\ parseResult'[1].error.state = topState
  /\ parseResult'[1].error.expected = expectedTerminals(topState)
  /\ Len(parseResult'[1].steps) = Len(steps) + 1
  /\ SubSeq(parseResult'[1].steps, 1, Len(steps)) = steps
  /\ parseResult'[1].steps[Len(steps) + 1].action.kind = "ERROR"

\* C18: when ACTION[s, a] is absent for the state s on top of the stack and
\* the current token a, the step of parseString returns accepted = false
\* with no parse tree, an error that names a, s and exactly the terminals
\* ACTION[s, .] is defined for, and the trace of the earlier steps, unchanged,
\* followed by one step ERROR.
C18_SyntaxErrorReturned == [][actionAbsent => syntaxErrorReturned]_vars

\* A parse of several steps has ended with a syntax error at the end
\* marker, in a state that expects some terminal.
C18_Witness ==
  /\ Returned
  /\ parseResult[1].error.kind = "Syntax Error"
  /\ parseResult[1].error.token = "$"
  /\ parseResult[1].error.expected # {}
  /\ Len(parseResult[1].steps) >= 3

\* The state a reduce by the current action uncovers: the entry 2|alpha|
\* below the top of the stack.
uncoveredState ==
  stack[Len(stack) - 2 * currentAction.action.productionRhsLen].state

\* The loop is about to reduce by A -> alpha, with 2|alpha| entries to pop
\* above a state s'' for which GOTO[s'', A] is absent.
gotoAbsent ==
  /\ pc = "parsing"
  /\ currentAction.found /\ currentAction.action.type = REDUCE
  /\ Len(stack) > 2 * currentAction.action.productionRhsLen
  /\ gotoAt(parsingTable, uncoveredState, currentAction.action.productionLhs) = -1

\* The result returned for an absent GOTO entry: not accepted, no tree, the
\* error naming the uncovered state and the lhs, the trace being the
\* earlier steps and the Reduce step.
gotoErrorReturned ==
  /\ pc' = "done"
  /\ Len(parseResult') = 1
  /\ ~parseResult'[1].accepted
  /\ parseResult'[1].parseTree = <<>>
  /\ parseResult'[1].error.kind = "GOTO Error"
  /\ parseResult'[1].error.state = uncoveredState
  /\ parseResult'[1].error.symbol = currentAction.action.productionLhs
  /\ Len(parseResult'[1].steps) = Len(steps) + 1
  /\ SubSeq(parseResult'[1].steps, 1, Len(steps)) = steps
  /\ parseResult'[1].steps[Len(steps) + 1].action =
       stepText("Reduce by", "", currentAction.action.productionStr)
  /\ steps' = parseResult'[1].steps

\* Once parseString has returned, its trace and result stay as they are
\* until another parse is started.
noFurtherStep ==
  pc = "done" => \/ steps' = steps /\ parseResult' = parseResult /\ pc' = "done"
                 \/ pc' # "done" /\ steps' = <<>>

\* C19: when a Reduce by A -> alpha has popped 2|alpha| stack entries and
\* uncovered a state s'' with GOTO[s'', A] absent, the step of parseString
\* returns accepted = false with an error GOTO Error that names s'' and A, no
\* parse tree, and the trace up to and including that Reduce step; no step
\* follows.
C19_GotoErrorReturned == [][(gotoAbsent => gotoErrorReturned) /\ noFurtherStep]_vars

\* A parse has ended with a GOTO error after earlier steps.
C19_Witness ==
  /\ Returned
  /\ parseResult[1].error.kind = "GOTO Error"
  /\ Len(parseResult[1].steps) >= 2

----------------------------------------------------------------------------
(* The empty input.                                                        *)

\* The original start symbol derives the empty string.
startDerivesEmpty == EPSILON \in LeastFirst(grammar)[OriginalStart]

\* C20: parseString on the empty input, the token sequence of the end
\* marker alone, returns accepted = true if and only if the original start
\* symbol derives the empty string: a result it returns is accepted exactly
\* then, and when the start symbol derives the empty string it does return,
\* never coming back to a configuration it has been in.  Stated for the
\* grammars that keep the name of the end marker for the end marker.
C20_EmptyInputAcceptedIffNullable ==
  (pc \in {"parsing", "done"} /\ inputString = <<>>
     /\ "$" \notin grammar.terminals \cup grammar.nonTerminals) =>
     /\ Returned => (parseResult[1].accepted <=> startDerivesEmpty)
     /\ startDerivesEmpty => ~DriverRepeats

----------------------------------------------------------------------------
(* Algebra of closure and goto.                                            *)

\* The item lists closure is tried on: the lists the collection is built
\* from, those lists backwards, and every item of a state on its own.
closureArguments ==
  closureKernels \cup {reverse(I) : I \in closureKernels} \cup
  UNION {{<<parsingTable.states[i + 1][k]>> : k \in DOMAIN parsingTable.states[i + 1]} :
         i \in StateIndices}

\* C21: closure is idempotent up to set equality: closure(closure(S)) holds
\* exactly the items of closure(S), for every item list S.
C21_ClosureIdempotent ==
  Published =>
     \A S \in closureArguments :
        itemKeys(closure(closure(S, grammar), grammar)) = itemKeys(closure(S, grammar))

\* closure has added to a list an item with a non-terminal after its dot,
\* which the second closure has to expand again.
C21_Witness ==
  /\ Published
  /\ \E S \in closureArguments :
        \E item \in Range(closure(S, grammar)) :
           /\ item \notin Range(S)
           /\ nextSymbol(item).type = NON_TERMINAL
           /\ closureForced(item, grammar) # {}

\* The list with its first item moved to its end.
rotate(s) == IF Len(s) = 0 THEN s ELSE Append(Tail(s), Head(s))

\* Lists that hold the items of a list in another order.
reorderings(I) == {reverse(I), rotate(I), rotate(rotate(I)), reverse(rotate(I))}

\* C22: goto(I1, X) and goto(I2, X) hold the same set of items when I1 and
\* I2 hold the same items in different orders, and goto(I, X) is empty
\* exactly when no item of I has a symbol named X after its dot; I being a
\* state of the collection and X any name of the grammar.
C22_GotoOrderInsensitive ==
  Published =>
     \A i \in StateIndices : \A X \in AllNames :
        /\ \A I2 \in reorderings(parsingTable.states[i + 1]) :
              itemKeys(goto(I2, X, grammar)) =
                itemKeys(goto(parsingTable.states[i + 1], X, grammar))
        /\ Len(goto(parsingTable.states[i + 1], X, grammar)) = 0
              <=> ~nameAfterDot(parsingTable.states[i + 1], X)

\* A state has two items with the same name after the dot that differ in
\* more than their lookahead, and another name is after no dot of it.
C22_Witness ==
  /\ Published
  /\ \E i \in StateIndices : \E X, Y \in AllNames :
        /\ \E j, k \in DOMAIN parsingTable.states[i + 1] :
              LET I == parsingTable.states[i + 1]
              IN /\ j < k
                 /\ nextSymbol(I[j]).name = X /\ nextSymbol(I[k]).name = X
                 /\ I[j].production # I[k].production
                 /\ Len(goto(I, X, grammar)) > 2
        /\ ~nameAfterDot(parsingTable.states[i + 1], Y)
        /\ Len(goto(parsingTable.states[i + 1], Y, grammar)) = 0

----------------------------------------------------------------------------
(* Termination of the generator.                                           *)

\* The run of buildCanonicalCollection has returned.
Built == build.pc = "built"

\* The finite universe of the items of a grammar, as closure prints them:
\* a production, a dot position, and a terminal or the end marker.
itemUniverse(g) ==
  UNION {{itemToString(LR1Item(g.productions[p], d, lookaheadSymbol(a))) :
            d \in 0..Len(g.productions[p].rhs), a \in g.terminals \cup {"$"}} :
         p \in DOMAIN g.productions}

\* The number of items of a grammar as LR1Item.equals tells them apart.
itemCount(g) ==
  Cardinality(UNION {{<<p, d, a>> : d \in 0..Len(g.productions[p].rhs),
                                    a \in g.terminals \cup {"$"}} :
                     p \in DOMAIN g.productions})

\* a comes before b in the lexicographic order of tuples of one length.
LexLess(a, b) ==
  \E j \in DOMAIN a : a[j] < b[j] /\ \A h \in 1..(j - 1) : a[h] = b[h]

\* What is left to do while the collection has the states it has, from the
\* outer loop to the inner one: the changed flag of while (changed), the
\* states the for loop has not reached, whether the names of state i are
\* still to be collected, the names of it not yet gone over, the half of
\* closure the run is in, the items the first half can still add and its
\* changed flag, and the keys the queue loop can still add with the length
\* of its queue.
measure(b, g) ==
  << IF b.changed THEN 1 ELSE 0,
     Len(b.states) - b.i,
     IF b.pc = "for" THEN 2 ELSE IF b.pc = "while" THEN 1 ELSE 0,
     Len(b.symbols) - b.k + 1,
     IF b.pc = "symbols" THEN 3 ELSE IF b.pc = "scan" THEN 2
       ELSE IF b.pc = "queue" THEN 1 ELSE 0,
     IF b.pc = "scan" THEN Len(b.items) + itemCount(g) - Len(b.result) ELSE 0,
     IF b.pc = "scan" /\ b.scanChanged THEN 1 ELSE 0,
     IF b.pc = "queue"
     THEN 2 * (Cardinality(itemStrings(b.items) \cup itemUniverse(g))
                 - Cardinality(b.processed)) + Len(b.queue)
     ELSE 0 >>

\* The step adds to the collection a state of items of the grammar that is
\* set-equal to no state it had.
newState(b, after, g) ==
  /\ Len(after.states) = Len(b.states) + 1
  /\ SubSeq(after.states, 1, Len(b.states)) = b.states
  /\ itemStrings(after.states[Len(after.states)]) \subseteq itemUniverse(g)
  /\ \A j \in DOMAIN b.states :
        itemStrings(b.states[j]) # itemStrings(after.states[Len(after.states)])

\* The step keeps the states and takes the measure down, in the naturals.
lessToDo(b, after, g) ==
  /\ after.states = b.states
  /\ \A j \in DOMAIN measure(after, g) : measure(after, g)[j] >= 0
  /\ LexLess(measure(after, g), measure(b, g))

\* C23: buildCanonicalCollection, with every closure and goto call it makes
\* and the first calls of those, terminates for every grammar parseGrammar
\* returns, left-recursive ones, ones with empty productions, with cycles of
\* unit productions and with non-terminals without productions included:
\* the item universe is finite, and every pass or iteration of a loop of the
\* run either adds a state that the collection did not have or leaves less
\* to do.
C23_BuildTerminates ==
  [][build' # build => \/ newState(build, build', grammar)
                        \/ lessToDo(build, build', grammar)]_vars

\* The run has returned for a grammar with a unit production A -> A and an
\* empty production, after it has built more than one state.
C23_Witness ==
  /\ Built
  /\ Len(build.states) > 1
  /\ \E p \in DOMAIN grammar.productions :
        grammar.productions[p].rhs = <<grammar.productions[p].lhs>>
  /\ \E p \in DOMAIN grammar.productions : Len(grammar.productions[p].rhs) = 0

----------------------------------------------------------------------------
(* The start of the collection.                                            *)

\* The item [S' -> . S, $] built from production 0 of the grammar.
startItem(g) == LR1Item(g.productions[1], 0, Symbol("$", END))

\* C24: state 0 of the collection is set-equal to closure of the single
\* item [S' -> . S, $] built from production 0, and production 0 of every
\* parsed grammar is the augmented start production S' -> S, S being the lhs
\* of the first rule of the text and S' that name with a prime.
C24_StateZeroIsStartClosure ==
  Published =>
     /\ itemKeys(parsingTable.states[1]) = itemKeys(closure(<<startItem(grammar)>>, grammar))
     /\ startItem(grammar) \in Range(parsingTable.states[1])
     /\ grammar.productions[1].lhs = Symbol(grammarInput[1].lhs \o "'", NON_TERMINAL)
     /\ grammar.productions[1].rhs = <<Symbol(grammarInput[1].lhs, NON_TERMINAL)>>
     /\ grammar.startSymbol = grammar.productions[1].lhs

\* The grammar has rules for another non-terminal than the first rule's,
\* closure has added items to the start item, and more states were pushed
\* after state 0.
C24_Witness ==
  /\ Published
  /\ \E k \in DOMAIN grammarInput :
        grammarInput[k].arrow /\ grammarInput[k].lhs # grammarInput[1].lhs
  /\ Len(parsingTable.states[1]) > 2
  /\ Len(parsingTable.states) > 2

----------------------------------------------------------------------------
(* The lab after a Generate that fails.                                    *)

\* The step is a run of handleGenerate.
generateStep == pc = "edit" /\ pc' \in {"ready", "failed"}

\* C26: when generating from the grammar text fails, no grammar and no
\* table are published: Generate fails exactly when parseGrammar raises,
\* after a failed Generate the lab holds grammar = null and parsingTable =
\* null and shows the error, whatever table was published before, and a
\* Parse request that follows runs no driver and changes nothing.
C26_FailedGenerateUnpublishes ==
  [][/\ generateStep => (pc' = "failed" <=> ~parseGrammar(grammarInput).ok)
     /\ pc' = "failed" =>
           grammar' = NullGrammar /\ parsingTable' = NullTable /\ error' # ""
     /\ pc = "failed" =>
           /\ pc' \in {"failed", "edit"}
           /\ UNCHANGED <<grammar, parsingTable, inputTokens, stack, nodeStack, ip,
                          stepCount, steps, parseResult>>]_vars

\* Generate has failed on a text that was emptied line by line after an
\* earlier Generate.
C26_Witness == pc = "failed" /\ grammarInput = <<>> /\ grammar = NullGrammar

----------------------------------------------------------------------------
(* The assignment sample.                                                  *)

\* The driver runs, or has run, on the input of the assignment sample with
\* the table of its grammar.
assignmentRun ==
  /\ pc \in {"parsing", "done"}
  /\ grammarInput = SAMPLES.assignment.grammar
  /\ inputString = SAMPLES.assignment.input

\* The positions of the steps of a trace that have the action.
stepsWith(trace, action) == {k \in DOMAIN trace : trace[k].action = action}

\* The positions of the Reduce steps of a trace.
reduceSteps(trace) == {k \in DOMAIN trace : trace[k].action.kind = "Reduce by"}

\* C25: for the grammar S -> L = R | R, L -> * R | i, R -> L and the input
\* * i = i, parseString returns accepted = true, its trace has exactly one
\* Shift of =, and the last Reduce step before ACCEPT is by S -> L = R.
C25_AssignmentSampleAccepted ==
  assignmentRun =>
     /\ ~DriverRepeats
     /\ \A k \in stepsWith(steps, stepText("Shift", "=", <<>>)) :
           \A j \in stepsWith(steps, stepText("Shift", "=", <<>>)) : j = k
     /\ Returned =>
           /\ parseResult[1].accepted
           /\ parseResult[1].steps[Len(parseResult[1].steps)].action
                = stepText("ACCEPT", "", <<>>)
           /\ Cardinality(stepsWith(parseResult[1].steps, stepText("Shift", "=", <<>>))) = 1
           /\ \E k \in reduceSteps(parseResult[1].steps) :
                 /\ \A j \in reduceSteps(parseResult[1].steps) : j <= k
                 /\ parseResult[1].steps[k].action.production
                      = <<"S", <<"L", "=", "R">>>>

\* parseString has returned for the assignment sample.
C25_Witness == assignmentRun /\ Returned /\ Len(parseResult[1].steps) > 1

----------------------------------------------------------------------------
(* Completeness of the driver.                                             *)

\* The table of the grammar was built without writing a cell of ACTION a
\* second time with another action.
conflictFree(g) ==
  LET writes == tableBuild(g).writes
  IN \A i \in DOMAIN writes : conflictCells(writes[i]) = {}

\* The place of the leftmost non-terminal of a sentential form, 0 if it
\* has none.
leftmostNonTerminal(form, g) ==
  IF \E k \in DOMAIN form : form[k] \in g.nonTerminals
  THEN CHOOSE k \in DOMAIN form :
         /\ form[k] \in g.nonTerminals
         /\ \A j \in 1..(k - 1) : form[j] \notin g.nonTerminals
  ELSE 0

\* A sentential form that can still derive w on the left: its terminals
\* before the leftmost non-terminal are the start of w, and it is no more
\* than two symbols longer than w.
towards(form, w, g) ==
  LET k == leftmostNonTerminal(form, g)
      prefix == IF k = 0 THEN Len(form) ELSE k - 1
  IN /\ Len(form) <= Len(w) + 2
     /\ prefix <= Len(w)
     /\ SubSeq(form, 1, prefix) = SubSeq(w, 1, prefix)
     /\ k = 0 => Len(form) = Len(w)

\* One step of leftmost derivation from a form by the productions of the
\* grammar the user wrote.
leftmostSteps(form, g) ==
  LET k == leftmostNonTerminal(form, g)
  IN IF k = 0 THEN {}
     ELSE {SubSeq(form, 1, k - 1) \o SymbolNames(g.productions[p].rhs)
             \o SubSeq(form, k + 1, Len(form)) :
           p \in {p \in 2..Len(g.productions) : g.productions[p].lhs.name = form[k]}}

\* The forms leftmost derivations towards w reach from the forms given.
RECURSIVE derivedForms(_, _, _)
derivedForms(forms, w, g) ==
  LET more == forms \cup {f \in UNION {leftmostSteps(form, g) : form \in forms} :
                             towards(f, w, g)}
  IN IF more = forms THEN forms ELSE derivedForms(more, w, g)

\* w has a leftmost derivation from the original start symbol through
\* forms at most two symbols longer than w.
derivable(w, g) == w \in derivedForms({<<g.productions[1].rhs[1].name>>}, w, g)

\* C27: for every grammar whose table is built without a conflict, every
\* token sequence derivable from the original start symbol is accepted by
\* parseString, grammars with left-recursive nullable non-terminals
\* included.  Stated for the results parseString returns, for the grammars
\* that keep the name of the end marker for the end marker.
C27_DerivableInputAccepted ==
  (/\ Returned
   /\ "$" \notin grammar.terminals \cup grammar.nonTerminals
   /\ derivable(inputString, grammar)
   /\ conflictFree(grammar)) => parseResult[1].accepted

----------------------------------------------------------------------------
(* The GOTO error.                                                         *)

\* C28: in a parse with the table buildParsingTable built for the grammar
\* parseGrammar returned, whenever the loop of parseString is about to
\* reduce by A -> alpha, the stack holds a state below the 2|alpha| entries
\* the step pops and GOTO has an entry for that state and A: the GOTO error
\* is never the outcome.
C28_GotoErrorUnreachable ==
  (pc = "parsing" /\ currentAction.found /\ currentAction.action.type = REDUCE) =>
     /\ Len(stack) > 2 * currentAction.action.productionRhsLen
     /\ gotoAt(parsingTable, uncoveredState, currentAction.action.productionLhs) # -1

----------------------------------------------------------------------------
(* The Reduce step.                                                        *)

\* The loop of parseString takes a step from a configuration whose action
\* is a Reduce.
reduceStep ==
  /\ pc = "parsing"
  /\ currentAction.found /\ currentAction.action.type = REDUCE
  /\ stepCount' = stepCount + 1

\* What the Reduce by A -> X1 ... Xk leaves: the stack without its top 2k
\* entries, then A, then GOTO[s'', A] for the state s'' uncovered.
reducedStack ==
  LET k == currentAction.action.productionRhsLen
      A == currentAction.action.productionLhs
      below == SubSeq(stack, 1, Len(stack) - 2 * k)
  IN /\ Len(stack) > 2 * k
     /\ gotoAt(parsingTable, uncoveredState, A) # -1
     /\ stack' = below \o <<SymbolEntry(A),
                            StateEntry(gotoAt(parsingTable, uncoveredState, A))>>

\* The node stack after the Reduce: its top k nodes replaced by one node
\* labelled A with those k nodes, in their order, as children, or the leaf
\* for the empty string as only child when k = 0.
reducedNodes ==
  LET k == currentAction.action.productionRhsLen
      A == currentAction.action.productionLhs
      below == SubSeq(nodeStack, 1, Len(nodeStack) - k)
      top == SubSeq(nodeStack, Len(nodeStack) - k + 1, Len(nodeStack))
  IN /\ Len(nodeStack) >= k
     /\ Len(nodeStack') = Len(nodeStack) - k + 1
     /\ SubSeq(nodeStack', 1, Len(nodeStack) - k) = below
     /\ nodeStack'[Len(nodeStack')].symbol = A
     /\ nodeStack'[Len(nodeStack')].children =
          IF k = 0 THEN <<ParseNode(EPSILON, <<>>)>> ELSE top

\* C29: a Reduce step of parseString by A -> X1 ... Xk pops exactly 2k
\* stack entries, pushes A and then GOTO[s'', A] for the uncovered state
\* s'', replaces the top k entries of the node stack by one node labelled A
\* whose children are those k nodes in their order (the leaf for the empty
\* string when k = 0), and leaves the input cursor where it was.
C29_ReduceStepFrame ==
  [][reduceStep => reducedStack /\ reducedNodes /\ ip' = ip
                     /\ inputTokens' = inputTokens]_vars

----------------------------------------------------------------------------
(* The stack and the automaton.                                            *)

\* The places of the stack that hold a state with two entries above it.
tripleStarts == {k \in 1..(Len(stack) - 2) : k % 2 = 1}

\* The entries at k, k + 1, k + 2 are a state, a symbol and the state the
\* collection goes to from the first on the symbol.
isTransition(collection, k) ==
  /\ stack[k].kind = "number"
  /\ stack[k + 1].kind = "string"
  /\ stack[k + 2].kind = "number"
  /\ transitionOf(collection, stack[k].state, stack[k + 1].name) = stack[k + 2].state

\* C30: at the start of every iteration of the step loop of parseString,
\* with the table buildParsingTable built from the grammar, the stack spells
\* a path of the automaton from state 0: it starts with state 0 and every
\* three consecutive entries s, X, s' are a transition of the canonical
\* collection, delta(s, X) = s'.
C30_StackSpellsPath ==
  /\ Published =>
        build.transitions = buildCanonicalCollection(grammar).transitions
  /\ pc = "parsing" =>
        /\ stack[1] = StateEntry(0)
        /\ \A k \in tripleStarts : isTransition(build, k)

\* The loop is at a stack that went over a terminal and a non-terminal, to
\* states other than state 0.
C30_Witness ==
  /\ pc = "parsing"
  /\ Len(stack) >= 5
  /\ \E j, k \in tripleStarts :
        /\ stack[j + 1].name \in grammar.terminals
        /\ stack[k + 1].name \in grammar.nonTerminals
        /\ stack[j + 2].state # stack[k + 2].state

----------------------------------------------------------------------------
(* generateConstructionTrace: the steps shown for the construction of the  *)
(* collection.  The text of a step is kept in parts: the action             *)
(* `Goto(I3, a)` is the record of "Goto", 3 and a, the note `Creates New    *)
(* State I4` the record of its words and 4.                                 *)

\* The UTF-16 code unit of each character the names of the model are
\* written with.
charCode ==
  ("$" :> 36) @@ ("*" :> 42) @@ ("+" :> 43) @@ ("=" :> 61) @@ ("A" :> 65) @@
  ("C" :> 67) @@ ("E" :> 69) @@ ("L" :> 76) @@ ("R" :> 82) @@ ("S" :> 83) @@
  ("a" :> 97) @@ ("b" :> 98) @@ ("c" :> 99) @@ ("d" :> 100) @@ ("i" :> 105)

\* The code units of a name: one character, or one character and primes.
RECURSIVE codeUnits(_)
codeUnits(name) ==
  IF name \in DOMAIN charCode THEN <<charCode[name]>>
  ELSE LET shorter == CHOOSE n \in DOMAIN charCode
                                     \cup {c \o "'" : c \in DOMAIN charCode} :
                         name = n \o "'"
       IN Append(codeUnits(shorter), 39)

\* The order Array.prototype.sort puts two strings in: by code units, a
\* proper prefix first.
RECURSIVE unitsBefore(_, _)
unitsBefore(a, b) ==
  IF Len(b) = 0 THEN FALSE
  ELSE IF Len(a) = 0 THEN TRUE
  ELSE IF Head(a) # Head(b) THEN Head(a) < Head(b)
  ELSE unitsBefore(Tail(a), Tail(b))

\* Array.from(names).sort()
RECURSIVE sorted(_)
sorted(names) ==
  IF names = {} THEN <<>>
  ELSE LET least == CHOOSE n \in names :
                       \A m \in names \ {n} : unitsBefore(codeUnits(n), codeUnits(m))
       IN <<least>> \o sorted(names \ {least})

TraceAction(kind, state, symbol) == [kind |-> kind, state |-> state, symbol |-> symbol]

TraceNote(text, state) == [text |-> text, state |-> state]

\* addStep(action, stack, input): the step number is the placeholder 0.
addStep(steps_, action, stack_, input) ==
  Append(steps_, [step |-> 0, action |-> action, stack |-> stack_, input |-> input])

\* Step 1, the augmented grammar.
traceAugmented(steps_, g) ==
  addStep(steps_, TraceAction("Augmented Grammar", -1, ""),
          <<[text |-> "Start Symbol", name |-> g.startSymbol.name],
            [text |-> "production", production |-> productionToString(g.productions[1])]>>,
          <<TraceNote("S' -> S", -1)>>)

\* Step 2, FIRST of the non-terminals in sorted order.
RECURSIVE traceFirst(_, _, _, _)
traceFirst(steps_, nonTerminals, k, g) ==
  IF k > Len(nonTerminals) THEN steps_
  ELSE traceFirst(addStep(steps_, TraceAction("FIRST", -1, nonTerminals[k]),
                          first(Symbol(nonTerminals[k], NON_TERMINAL), g, {}), <<>>),
                  nonTerminals, k + 1, g)

\* The cap on the passes of the while loop.
MaxIterations == 100

Tracing(states, steps_, transitionsLog, changed) ==
  [states |-> states, steps |-> steps_, transitionsLog |-> transitionsLog,
   changed |-> changed]

\* transitionsLog.some(t => t.fromState === i && t.symbol === symName)
alreadyLogged(transitionsLog, i, symName) ==
  \E e \in DOMAIN transitionsLog :
     transitionsLog[e].fromState = i /\ transitionsLog[e].symbol = symName

\* transitionsLog.push(...) unless the transition is logged already.
logTransition(transitionsLog, i, symName, nextStateItems) ==
  IF alreadyLogged(transitionsLog, i, symName) THEN transitionsLog
  ELSE Append(transitionsLog,
              [fromState |-> i, symbol |-> symName, toStateItems |-> nextStateItems])

\* The body of the loop over sortedSymbols once goto and the search have
\* run: found is the index of an equal state or -1.
traceLink(t, i, symName, nextStateItems, found) ==
  IF Len(nextStateItems) = 0 THEN t
  ELSE IF found = -1
  THEN Tracing(Append(t.states, nextStateItems),
               addStep(t.steps, TraceAction("Goto", i, symName),
                       [k \in DOMAIN nextStateItems |-> itemToString(nextStateItems[k])],
                       <<TraceNote("Creates New State", Len(t.states))>>),
               logTransition(t.transitionsLog, i, symName, nextStateItems), TRUE)
  ELSE Tracing(t.states,
               IF alreadyLogged(t.transitionsLog, i, symName) THEN t.steps
               ELSE addStep(t.steps, TraceAction("Goto", i, symName),
                            <<TraceNote("Matches Item Set", found)>>,
                            <<TraceNote("Links to existing State", found)>>),
               logTransition(t.transitionsLog, i, symName, nextStateItems), t.changed)

\* for (const symName of sortedSymbols) for state i.
RECURSIVE traceSymbols(_, _, _, _, _)
traceSymbols(t, i, symbols, k, g) ==
  IF k > Len(symbols) THEN t
  ELSE LET nextStateItems == goto(t.states[i + 1], symbols[k], g)
       IN traceSymbols(traceLink(t, i, symbols[k], nextStateItems,
                                 existingStateIndex(t.states, nextStateItems)),
                       i, symbols, k + 1, g)

\* for (let i = 0; i < currentStatesCount; i++)
RECURSIVE tracePass(_, _, _, _)
tracePass(t, i, currentStatesCount, g) ==
  IF i >= currentStatesCount THEN t
  ELSE tracePass(traceSymbols(t, i,
                              sorted(Range(symbolsAfterDot(t.states[i + 1], 1, <<>>))),
                              1, g),
                 i + 1, currentStatesCount, g)

\* while (changed && iterations < 100)
RECURSIVE traceWhile(_, _, _)
traceWhile(t, iterations, g) ==
  IF t.changed /\ iterations < MaxIterations
  THEN traceWhile(tracePass(Tracing(t.states, t.steps, t.transitionsLog, FALSE),
                            0, Len(t.states), g),
                  iterations + 1, g)
  ELSE t

\* Step 3 up to the loop: the initial item and its closure.
traceInitial(steps_, startItem_, initialClosure) ==
  addStep(addStep(steps_, TraceAction("Initial Item", -1, ""),
                  <<itemToString(startItem_)>>, <<>>),
          TraceAction("Closure", 0, ""),
          [k \in DOMAIN initialClosure |-> itemToString(initialClosure[k])],
          <<TraceNote("State constructed", 0)>>)

generateConstructionTrace(g) ==
  LET startItem_ == LR1Item(g.productions[1], 0, Symbol("$", END))
      initialClosure == closure(<<startItem_>>, g)
      before == traceFirst(traceAugmented(<<>>, g), sorted(g.nonTerminals), 1, g)
  IN traceWhile(Tracing(<<initialClosure>>,
                        traceInitial(before, startItem_, initialClosure),
                        <<>>, TRUE),
                0, g).steps

----------------------------------------------------------------------------
(* The construction trace and the generator.                               *)

\* The steps of a trace that report a goto.
gotoSteps(trace) == {k \in DOMAIN trace : trace[k].action.kind = "Goto"}

\* The item strings the trace shows for state n: those of the step that
\* constructed it.
shownItems(trace, n) ==
  UNION {Range(trace[k].stack) :
           k \in {k \in DOMAIN trace :
                    /\ trace[k].action.kind \in {"Closure", "Goto"}
                    /\ trace[k].input[1].text \in {"State constructed", "Creates New State"}
                    /\ trace[k].input[1].state = n}}

\* The trace reports state n as constructed.
reported(trace, n) ==
  \E k \in DOMAIN trace :
     /\ trace[k].action.kind \in {"Closure", "Goto"}
     /\ trace[k].input[1].text \in {"State constructed", "Creates New State"}
     /\ trace[k].input[1].state = n

\* C31: for the grammar that was generated from, every step Goto(Ii, X) of
\* generateConstructionTrace that creates or links to state In names the
\* indices of buildCanonicalCollection: the collection has the transition
\* of i on X to n and its state n is set-equal to the items the trace shows
\* for In; and the trace reports every state of the collection.  Stated for
\* the grammars that keep the name of the end marker for the end marker.
C31_TraceAgreesWithCollection ==
  (Published /\ "$" \notin grammar.terminals \cup grammar.nonTerminals) =>
     LET trace == generateConstructionTrace(grammar)
     IN /\ \A k \in gotoSteps(trace) :
              LET n == trace[k].input[1].state
              IN /\ transitionOf(build, trace[k].action.state, trace[k].action.symbol) = n
                 /\ n \in StateIndices
                 /\ itemStrings(parsingTable.states[n + 1]) = shownItems(trace, n)
        /\ \A n \in StateIndices : reported(trace, n)

----------------------------------------------------------------------------
(* The Shift step.                                                         *)

\* The loop of parseString takes a step from a configuration whose action
\* is a Shift.
shiftStep ==
  /\ pc = "parsing"
  /\ currentAction.found /\ currentAction.action.type = SHIFT
  /\ stepCount' = stepCount + 1

\* What the Shift of the token a to the state s' leaves: a and s' on the
\* stack, the leaf a on the node stack, the cursor one token further.
shifted ==
  /\ stack' = stack \o <<SymbolEntry(currentToken),
                         StateEntry(currentAction.action.value)>>
  /\ nodeStack' = Append(nodeStack, ParseNode(currentToken, <<>>))
  /\ ip' = ip + 1
  /\ inputTokens' = inputTokens

\* C32: a Shift step of parseString on the token a with ACTION[s, a] =
\* Shift(s') pushes a and then s' onto the stack, pushes the leaf a without
\* children onto the node stack and moves the cursor on by one; the token
\* shifted is never the end marker appended to the input, so the cursor
\* stays on a token.  Stated for the inputs that hold no end marker, the
\* only ones the input format allows.
C32_ShiftStepFrame ==
  [][(shiftStep /\ "$" \notin Range(inputString)) =>
        /\ shifted
        /\ currentToken # "$"
        /\ ip' < Len(inputTokens)]_vars

----------------------------------------------------------------------------
(* The shape of the two stacks.                                            *)

\* C33: at the start of every iteration of the step loop of parseString the
\* stack has odd length and starts with state 0, its entries are states at
\* the places 0, 2, 4, ... and symbol names at the places 1, 3, 5, ..., and
\* the node stack holds one node for each symbol of the stack, in order and
\* labelled with that symbol: the stack is twice as long as the node stack
\* plus one.
C33_StacksInStep ==
  pc = "parsing" =>
     /\ Len(stack) % 2 = 1
     /\ stack[1] = StateEntry(0)
     /\ \A k \in DOMAIN stack :
           stack[k].kind = IF k % 2 = 1 THEN "number" ELSE "string"
     /\ Len(stack) = 2 * Len(nodeStack) + 1
     /\ \A n \in DOMAIN nodeStack : nodeStack[n].symbol = stack[2 * n].name

\* The loop is at a stack of a shifted token above a reduced non-terminal.
C33_Witness ==
  /\ pc = "parsing"
  /\ Len(nodeStack) >= 2
  /\ nodeStack[1].children # <<>>
  /\ nodeStack[Len(nodeStack)].children = <<>>

----------------------------------------------------------------------------
(* The trace of a parse.                                                   *)

\* The loop of parseString takes a step.
driverStep == pc = "parsing" /\ stepCount' = stepCount + 1

\* The step adds one entry to the trace: its number is the number of the
\* entries before it, its stack and input are the stack, entry by entry as
\* text, and the tokens from the cursor on, end marker included, as they are
\* before the action is applied.
stepRecorded ==
  /\ Len(steps') = Len(steps) + 1
  /\ SubSeq(steps', 1, Len(steps)) = steps
  /\ steps'[Len(steps')].step = Len(steps)
  /\ steps'[Len(steps')].stack = [k \in DOMAIN stack |-> entryToString(stack[k])]
  /\ steps'[Len(steps')].input = SubSeq(inputTokens, ip + 1, Len(inputTokens))
  /\ ip < Len(inputTokens) =>
        steps'[Len(steps')].input[Len(inputTokens) - ip] = "$"
  /\ steps'[Len(steps')].action.kind = "Shift"
        <=> (currentAction.found /\ currentAction.action.type = SHIFT)

\* The entries of a trace are numbered 0, 1, 2, ...; the input of an entry
\* is the end of the input of the entry before it, one token shorter after
\* a Shift and the same after any other step.
traceInOrder(trace) ==
  /\ \A k \in DOMAIN trace : trace[k].step = k - 1
  /\ \A k \in 1..(Len(trace) - 1) :
        LET before == trace[k].input
            after == trace[k + 1].input
        IN /\ Len(after) <= Len(before)
           /\ after = SubSeq(before, Len(before) - Len(after) + 1, Len(before))
           /\ Len(after) = IF trace[k].action.kind = "Shift"
                           THEN Len(before) - 1 ELSE Len(before)

----------------------------------------------------------------------------
(* The playback of the trace in the lab.                                   *)

\* setCurrentStep(0); setVisibleSteps([]); setIsPlaying(true)
restartSimulation == commit(TRUE, 0, <<>>, allSteps)

\* The playback panel is rendered while there is a trace.
isSimulating == Len(allSteps) > 0

isComplete == currentStep >= Len(allSteps) /\ Len(allSteps) > 0

\* What a playback event leaves alone.
playbackFrame ==
  /\ UNCHANGED <<grammarInput, inputString, grammar, parsingTable, consoleWarn,
                 error, pc, build>>
  /\ UNCHANGED driverVars

\* The lab is at rest: it is mounted and no handler is running.
atRest == pc \notin {"mounting", "parsing"}

\* The play / pause button: past the end it restarts the playback.
togglePlay ==
  /\ atRest /\ isSimulating
  /\ IF isComplete THEN restartSimulation
     ELSE commit(~isPlaying, currentStep, visibleSteps, allSteps)
  /\ playbackFrame

skipToEnd ==
  /\ atRest /\ isSimulating
  /\ commit(FALSE, Len(allSteps), allSteps, allSteps)
  /\ playbackFrame

\* The button is disabled once the playback is complete.
stepForward ==
  /\ atRest /\ isSimulating /\ ~isComplete
  /\ IF currentStep < Len(allSteps)
     THEN commit(isPlaying, currentStep + 1,
                 Append(visibleSteps, allSteps[currentStep + 1]), allSteps)
     ELSE UNCHANGED playVars
  /\ playbackFrame

\* The time-out of the playback effect fires: its callback shows the step
\* at the currentStep it closed over and counts one step on.
playbackTimer ==
  /\ atRest /\ animationRef # NoTimer
  /\ commit(isPlaying, currentStep + 1,
            Append(visibleSteps, allSteps[animationRef + 1]), allSteps)
  /\ playbackFrame

\* The Generate button, and the effect that runs handleGenerate on mount.
clickGenerate == pc # "parsing" /\ generate

\* The Parse button.
clickParse == atRest /\ parseRequested

\* A sample of the menu is chosen.
clickSample == atRest /\ \E key \in LoadedSamples : sampleLoaded(key)

\* The lab as it is constructed: the simple sample in the two boxes, no
\* grammar, no table, no trace.
PlaybackInit ==
  /\ grammarInput = SAMPLES.simple.grammar
  /\ inputString = SAMPLES.simple.input
  /\ grammar = NullGrammar
  /\ parsingTable = NullTable
  /\ consoleWarn = <<>>
  /\ error = ""
  /\ pc = "mounting"
  /\ inputTokens = <<>>
  /\ stack = <<>>
  /\ nodeStack = <<>>
  /\ ip = 0
  /\ stepCount = 0
  /\ steps = <<>>
  /\ parseResult = <<>>
  /\ build = NoBuild
  /\ noPlayback

PlaybackNext ==
  \/ clickGenerate
  \/ clickParse
  \/ clickSample
  \/ parseError
  \/ parseShift
  \/ parseReduce
  \/ parseAccept
  \/ playbackTimer
  \/ togglePlay
  \/ stepForward
  \/ skipToEnd

PlaybackSpec == PlaybackInit /\ [][PlaybackNext]_vars

isPrefix(s, t) == Len(s) <= Len(t) /\ s = SubSeq(t, 1, Len(s))

\* No step number occurs twice in the list.
shownOnce(shown) ==
  \A i \in DOMAIN shown : \A j \in DOMAIN shown :
    shown[i].step = shown[j].step => i = j

\* C35: whenever the lab is at rest, after any sequence of Generate, Parse,
\* load-sample, play/pause, step-forward, skip-to-end, restart and
\* playback-timer events, visibleSteps is a prefix of allSteps, currentStep
\* equals the length of visibleSteps and does not exceed the length of
\* allSteps, and no trace step is shown twice.
C35_PlaybackInStep ==
  atRest =>
    /\ isPrefix(visibleSteps, allSteps)
    /\ currentStep = Len(visibleSteps)
    /\ currentStep <= Len(allSteps)
    /\ shownOnce(visibleSteps)

====
